---- MODULE Spec2Model ----
(***************************************************************************)
(* State-machine model of PseudocodeInterpreter                            *)
(* (src/lib/pseudocode-interpreter.tsx).                                   *)
(*                                                                         *)
(* Conventions                                                             *)
(*  - A JavaScript string is a sequence of one-character strings, so that  *)
(*    toLowerCase, parseFloat, String(n) and join are computed.            *)
(*  - A JavaScript value is a tagged record (NumV, NaNV, BoolV, StrV,      *)
(*    NullV, UndefV, ArrV); ThrowV stands for a thrown exception inside    *)
(*    `new Function(...)()`.  Numbers are integers (no fractions).         *)
(*  - Line indices are the code's 0-based indices; LineAt(ls, i) is        *)
(*    lines[i].                                                            *)
(*  - A source line is a record of what the dispatcher's startsWith tests  *)
(*    and regular expressions extract from its text: kw (the keyword       *)
(*    prefix the lower-cased line starts with), ok (the statement's own    *)
(*    regular expression matches), asg (the assignment regular expression  *)
(*    matches a line containing "<-" or "="), and the captured groups.     *)
(*  - An expression is the tree its text denotes; the textual variable     *)
(*    substitution of evaluateSimpleExpression is computed on the leaves   *)
(*    (String(value) re-read as a JavaScript token) and the fall-back      *)
(*    result is the rewritten text (ProcessedText).                        *)
(*  - The recursion of executeLine is an explicit stack of frames; the     *)
(*    only suspension point is the await of inputCallback.                 *)
(*  - The one exception a statement can throw is the RangeError of          *)
(*    new Array(n) for a size literal above 4294967295; it is caught by     *)
(*    the loop of execute.                                                  *)
(***************************************************************************)
EXTENDS Integers, Sequences, FiniteSets, TLC

(***************************************************************************)
(* Characters and strings                                                  *)
(***************************************************************************)
Digits == <<"0", "1", "2", "3", "4", "5", "6", "7", "8", "9">>

Uppers == <<"A", "B", "C", "D", "E", "F", "G", "H", "I", "J", "K", "L", "M",
            "N", "O", "P", "Q", "R", "S", "T", "U", "V", "W", "X", "Y", "Z">>

Lowers == <<"a", "b", "c", "d", "e", "f", "g", "h", "i", "j", "k", "l", "m",
            "n", "o", "p", "q", "r", "s", "t", "u", "v", "w", "x", "y", "z">>

Range(s) == { s[i] : i \in DOMAIN s }

IsDigit(c) == c \in Range(Digits)

DigitVal(c) == (CHOOSE i \in DOMAIN Digits : Digits[i] = c) - 1

IsLetter(c) == c \in Range(Uppers) \cup Range(Lowers) \cup {"_"}

IsWordChar(c) == IsLetter(c) \/ IsDigit(c)

IsSpace(c) == c = " "

LowerChar(c) ==
  IF c \in Range(Uppers)
  THEN Lowers[CHOOSE i \in DOMAIN Uppers : Uppers[i] = c]
  ELSE c

\* String.prototype.toLowerCase
toLowerCase(s) == [i \in DOMAIN s |-> LowerChar(s[i])]

RECURSIVE NatToString(_)
NatToString(n) ==
  IF n < 10 THEN <<Digits[n + 1]>>
  ELSE NatToString(n \div 10) \o <<Digits[(n % 10) + 1]>>

\* Number.prototype.toString for an integer
NumToString(n) == IF n < 0 THEN <<"-">> \o NatToString(0 - n) ELSE NatToString(n)

RECURSIVE DigitsToNat(_)
DigitsToNat(s) ==
  IF Len(s) = 0 THEN 0
  ELSE 10 * DigitsToNat(SubSeq(s, 1, Len(s) - 1)) + DigitVal(s[Len(s)])

RECURSIVE SkipSpaces(_)
SkipSpaces(s) == IF Len(s) > 0 /\ IsSpace(s[1]) THEN SkipSpaces(Tail(s)) ELSE s

RECURSIVE SkipTrailingSpaces(_)
SkipTrailingSpaces(s) ==
  IF Len(s) > 0 /\ IsSpace(s[Len(s)])
  THEN SkipTrailingSpaces(SubSeq(s, 1, Len(s) - 1))
  ELSE s

\* String.prototype.trim
Trim(s) == SkipTrailingSpaces(SkipSpaces(s))

RECURSIVE DigitPrefix(_)
DigitPrefix(s) ==
  IF Len(s) > 0 /\ IsDigit(s[1]) THEN <<s[1]>> \o DigitPrefix(Tail(s)) ELSE <<>>

AllDigits(s) == Len(s) > 0 /\ \A i \in DOMAIN s : IsDigit(s[i])

\* A decimal integer literal as String(n) prints it: no leading zero.
IsIntText(s) ==
  LET body == IF Len(s) > 0 /\ s[1] = "-" THEN Tail(s) ELSE s
  IN  AllDigits(body) /\ (Len(body) = 1 \/ body[1] # "0")

IntOfText(s) ==
  IF s[1] = "-" THEN 0 - DigitsToNat(Tail(s)) ELSE DigitsToNat(s)

\* /^[a-zA-Z_À-ɏ][\wÀ-ɏ]*$/ on ASCII text
IsIdentifier(s) ==
  Len(s) > 0 /\ IsLetter(s[1]) /\ \A i \in DOMAIN s : IsWordChar(s[i])

RECURSIVE JoinWith(_, _)
\* Array.prototype.join
JoinWith(parts, sep) ==
  IF Len(parts) = 0 THEN <<>>
  ELSE IF Len(parts) = 1 THEN parts[1]
  ELSE parts[1] \o sep \o JoinWith(Tail(parts), sep)

(***************************************************************************)
(* JavaScript values                                                       *)
(***************************************************************************)
NumV(n) == [t |-> "num", n |-> n]
NaNV == [t |-> "nan"]
BoolV(b) == [t |-> "bool", b |-> b]
StrV(s) == [t |-> "str", s |-> s]
NullV == [t |-> "null"]
UndefV == [t |-> "undef"]
ArrV(a) == [t |-> "arr", a |-> a]
ThrowV == [t |-> "throw"]

IsNumber(v) == v.t \in {"num", "nan"}

S_true == <<"t", "r", "u", "e">>
S_false == <<"f", "a", "l", "s", "e">>
S_null == <<"n", "u", "l", "l">>
S_undefined == <<"u", "n", "d", "e", "f", "i", "n", "e", "d">>
S_NaN == <<"N", "a", "N">>

RECURSIVE String(_)
\* String(value)
String(v) ==
  CASE v.t = "num" -> NumToString(v.n)
    [] v.t = "nan" -> S_NaN
    [] v.t = "bool" -> IF v.b THEN S_true ELSE S_false
    [] v.t = "str" -> v.s
    [] v.t = "null" -> S_null
    [] v.t = "undef" -> S_undefined
    [] v.t = "arr" ->
         JoinWith([i \in DOMAIN v.a |->
                     IF v.a[i].t \in {"null", "undef"} THEN <<>> ELSE String(v.a[i])],
                  <<",">>)

\* parseFloat(string): leading blanks, an optional sign, then digits; the rest
\* of the text is ignored; NaN when no digit is found.
parseFloat(s) ==
  LET t == SkipSpaces(s)
      neg == Len(t) > 0 /\ t[1] = "-"
      u == IF Len(t) > 0 /\ t[1] \in {"-", "+"} THEN Tail(t) ELSE t
      d == DigitPrefix(u)
  IN  IF Len(d) = 0 THEN NaNV
      ELSE NumV(IF neg THEN 0 - DigitsToNat(d) ELSE DigitsToNat(d))

\* ToNumber of a primitive
ToNumber(v) ==
  CASE v.t = "num" -> v
    [] v.t = "nan" -> NaNV
    [] v.t = "bool" -> NumV(IF v.b THEN 1 ELSE 0)
    [] v.t = "null" -> NumV(0)
    [] v.t = "undef" -> NaNV
    [] v.t = "str" ->
         LET t == SkipSpaces(v.s)
         IN  IF Len(t) = 0 THEN NumV(0)
             ELSE IF IsIntText(t) THEN NumV(IntOfText(t))
             ELSE NaNV

\* Boolean(value)
Truthy(v) ==
  CASE v.t = "num" -> v.n # 0
    [] v.t = "nan" -> FALSE
    [] v.t = "bool" -> v.b
    [] v.t = "str" -> Len(v.s) > 0
    [] v.t = "null" -> FALSE
    [] v.t = "undef" -> FALSE
    [] v.t = "arr" -> TRUE

Abs(n) == IF n < 0 THEN 0 - n ELSE n

\* a % b of JavaScript on integers
JSRem(a, b) ==
  IF b = 0 THEN NaNV
  ELSE NumV((IF a < 0 THEN 0 - 1 ELSE 1) * (Abs(a) % Abs(b)))

\* a binary arithmetic or relational operator of JavaScript on two primitives
JSBinary(op, l, r) ==
  LET a == ToNumber(l)
      b == ToNumber(r)
      nan == a.t = "nan" \/ b.t = "nan"
  IN  CASE op = "+" -> IF nan THEN NaNV ELSE NumV(a.n + b.n)
        [] op = "-" -> IF nan THEN NaNV ELSE NumV(a.n - b.n)
        [] op = "*" -> IF nan THEN NaNV ELSE NumV(a.n * b.n)
        [] op = "mod" -> IF nan THEN NaNV ELSE JSRem(a.n, b.n)
        [] op = ">" -> BoolV(~nan /\ a.n > b.n)
        [] op = "<" -> BoolV(~nan /\ a.n < b.n)
        [] op = ">=" -> BoolV(~nan /\ a.n >= b.n)
        [] op = "<=" -> BoolV(~nan /\ a.n <= b.n)

\* l === r on primitives
StrictEquals(l, r) ==
  IF l.t = "nan" \/ r.t = "nan" THEN FALSE ELSE l = r

(***************************************************************************)
(* The variable store: a Map<string, Variable> in insertion order          *)
(***************************************************************************)
Variable(name, type, value) ==
  [key |-> toLowerCase(name), name |-> name, type |-> type, value |-> value]

MapHas(vars, key) == \E i \in DOMAIN vars : vars[i].key = key

MapIndex(vars, key) == CHOOSE i \in DOMAIN vars : vars[i].key = key

\* Map.prototype.get (only used where the key is present)
MapGet(vars, key) == vars[MapIndex(vars, key)]

\* a Map whose set moves an existing key to the end of the insertion order
MapSet_MovesToEnd(vars, var) ==
  Append(SelectSeq(vars, LAMBDA v : v.key # var.key), var)

\* Map.prototype.set: an existing key keeps its place, a new key goes last
MapSet(vars, var) ==
  IF MapHas(vars, var.key)
  THEN [vars EXCEPT ![MapIndex(vars, var.key)] = var]
  ELSE Append(vars, var)

\* existingVar.value = value, on the object held by the map
SetValue(vars, key, value) ==
  [vars EXCEPT ![MapIndex(vars, key)].value = value]

S_entero == <<"e", "n", "t", "e", "r", "o">>
S_real == <<"r", "e", "a", "l">>
S_caracter == <<"c", "a", "r", "a", "c", "t", "e", "r">>
S_cadena == <<"c", "a", "d", "e", "n", "a">>
S_logico == <<"l", "o", "g", "i", "c", "o">>
S_arreglo == <<"a", "r", "r", "e", "g", "l", "o">>
S_verdadero == <<"v", "e", "r", "d", "a", "d", "e", "r", "o">>

\* a default lookup that does not fold the letter case of the type name
getDefaultValue_CaseSensitive(type) ==
  CASE type \in {S_entero, S_real} -> NumV(0)
    [] type \in {S_caracter, S_cadena} -> StrV(<<>>)
    [] type = S_logico -> BoolV(FALSE)
    [] OTHER -> NullV

getDefaultValue(type) ==
  LET t == toLowerCase(type)
  IN  CASE t \in {S_entero, S_real} -> NumV(0)
        [] t \in {S_caracter, S_cadena} -> StrV(<<>>)
        [] t = S_logico -> BoolV(FALSE)
        [] OTHER -> NullV

(***************************************************************************)
(* Expressions                                                             *)
(***************************************************************************)
E_Num(n) == [k |-> "num", n |-> n]
E_Var(name) == [k |-> "var", name |-> name]
E_Bool(b) == [k |-> "bool", b |-> b]
E_Bin(op, l, r) == [k |-> "bin", op |-> op, l |-> l, r |-> r]
E_Not(e) == [k |-> "not", e |-> e]
\* name[idx], standing as a whole expression
E_At(name, idx) == [k |-> "at", name |-> name, idx |-> idx]

OpSource(op) ==
  CASE op = "mod" -> <<"m", "o", "d">>
    [] op = ">=" -> <<">", "=">>
    [] op = "<=" -> <<"<", "=">>
    [] op = "<>" -> <<"<", ">">>
    [] op = "Y" -> <<"Y">>
    [] op = "O" -> <<"O">>
    [] OTHER -> <<op>>

RECURSIVE SourceText(_)
\* the text of an expression as it stands in the source line
SourceText(e) ==
  CASE e.k = "num" -> NumToString(e.n)
    [] e.k = "var" -> e.name
    [] e.k = "bool" -> IF e.b THEN <<"V", "E", "R", "D", "A", "D", "E", "R", "O">>
                       ELSE <<"F", "A", "L", "S", "O">>
    [] e.k = "not" -> <<"N", "O", " ">> \o SourceText(e.e)
    [] e.k = "at" -> e.name \o <<"[">> \o SourceText(e.idx) \o <<"]">>
    [] e.k = "bin" -> SourceText(e.l) \o <<" ">> \o OpSource(e.op) \o <<" ">>
                      \o SourceText(e.r)

\* what the variable loop of evaluateSimpleExpression leaves in place of an
\* identifier: String(value) of the declared variable, else the identifier
LeafText(name, vars) ==
  IF MapHas(vars, toLowerCase(name))
  THEN String(MapGet(vars, toLowerCase(name)).value)
  ELSE name

RECURSIVE ProcessedText(_, _)
\* processedExpr: the text after substitution and operator rewriting
ProcessedText(e, vars) ==
  CASE e.k = "num" -> NumToString(e.n)
    [] e.k = "var" -> LeafText(e.name, vars)
    [] e.k = "bool" -> IF e.b THEN S_true ELSE S_false
    [] e.k = "at" -> LeafText(e.name, vars) \o <<"[">> \o ProcessedText(e.idx, vars)
                     \o <<"]">>
    [] e.k = "bin" -> ProcessedText(e.l, vars) \o <<" ">>
                      \o (IF e.op = "mod" THEN <<"%">> ELSE OpSource(e.op))
                      \o <<" ">> \o ProcessedText(e.r, vars)

\* the value of one operand token of the rewritten text when JavaScript
\* evaluates it: a literal, or a ReferenceError for an unbound identifier
TokenValue(text) ==
  CASE IsIntText(text) -> NumV(IntOfText(text))
    [] text = S_true -> BoolV(TRUE)
    [] text = S_false -> BoolV(FALSE)
    [] text = S_null -> NullV
    [] text = S_NaN -> NaNV
    [] text = S_undefined -> UndefV
    [] OTHER -> ThrowV

\* the value JavaScript gives to `text[idx]`, where `text` is what the
\* variable loop left in place of the name: the text of an array is its
\* elements joined by commas, so that the operands of the comma operator are
\* evaluated in turn and the last of them is the object of the member access;
\* an empty text leaves the array literal [idx]
MemberAccess(name, idx, vars) ==
  LET text == LeafText(name, vars)
      bound == MapGet(vars, toLowerCase(name)).value
      operands == IF MapHas(vars, toLowerCase(name)) /\ bound.t = "arr"
                  THEN [i \in DOMAIN bound.a |->
                          IF bound.a[i].t \in {"null", "undef"} THEN <<>>
                          ELSE String(bound.a[i])]
                  ELSE <<text>>
      object == TokenValue(operands[Len(operands)])
  IN  CASE idx = ThrowV -> ThrowV
        [] idx # ThrowV /\ Len(text) = 0 -> ArrV(<<idx>>)
        [] idx # ThrowV /\ Len(text) > 0
             /\ \E i \in DOMAIN operands :
                  Len(operands[i]) = 0 \/ TokenValue(operands[i]) = ThrowV -> ThrowV
        [] OTHER ->
             CASE object.t \in {"null", "undef"} -> ThrowV
               [] object.t = "num" /\ object.n < 0 -> NaNV
               [] OTHER -> UndefV

RECURSIVE EvalSimpleJS(_, _)
\* new Function(`return ${processedExpr}`)() of evaluateSimpleExpression
EvalSimpleJS(e, vars) ==
  CASE e.k = "num" -> NumV(e.n)
    [] e.k = "bool" -> BoolV(e.b)
    [] e.k = "var" -> TokenValue(LeafText(e.name, vars))
    [] e.k = "at" -> MemberAccess(e.name, EvalSimpleJS(e.idx, vars), vars)
    [] e.k = "bin" ->
         LET l == EvalSimpleJS(e.l, vars)
             r == EvalSimpleJS(e.r, vars)
         IN  IF l = ThrowV \/ r = ThrowV THEN ThrowV ELSE JSBinary(e.op, l, r)

evaluateSimpleExpression(e, vars) ==
  LET text == ProcessedText(e, vars)
      r == EvalSimpleJS(e, vars)
  IN  IF Len(SkipSpaces(text)) = 0 THEN UndefV
      ELSE IF r = ThrowV THEN StrV(text)
      ELSE r

\* JSON.stringify(value) read back by JavaScript
JsonValue(v) == IF v.t = "nan" THEN NullV ELSE v

RECURSIVE EvalCondJS(_, _)
\* new Function(`return ${processed}`)() of evaluateCondition
EvalCondJS(e, vars) ==
  CASE e.k = "num" -> NumV(e.n)
    [] e.k = "bool" -> BoolV(e.b)
    [] e.k = "var" ->
         IF MapHas(vars, toLowerCase(e.name))
         THEN JsonValue(MapGet(vars, toLowerCase(e.name)).value)
         ELSE ThrowV
    [] e.k = "not" ->
         LET x == EvalCondJS(e.e, vars)
         IN  IF x = ThrowV THEN ThrowV ELSE BoolV(~Truthy(x))
    [] e.k = "bin" ->
         LET l == EvalCondJS(e.l, vars)
             r == EvalCondJS(e.r, vars)
         IN  CASE l = ThrowV -> ThrowV
               [] l # ThrowV /\ e.op = "Y" -> IF Truthy(l) THEN r ELSE l
               [] l # ThrowV /\ e.op = "O" -> IF Truthy(l) THEN l ELSE r
               [] l # ThrowV /\ e.op \notin {"Y", "O"} /\ r = ThrowV -> ThrowV
               [] l # ThrowV /\ r # ThrowV /\ e.op = "=" -> BoolV(StrictEquals(l, r))
               [] l # ThrowV /\ r # ThrowV /\ e.op = "<>" -> BoolV(~StrictEquals(l, r))
               [] l # ThrowV /\ r # ThrowV /\ e.op \in {">", "<", ">=", "<="}
                    /\ ~(l.t = "str" /\ r.t = "str") -> JSBinary(e.op, l, r)

\* a condition evaluator that takes a condition it cannot evaluate as true
evaluateCondition_FailOpen(c, vars) ==
  LET r == EvalCondJS(c, vars)
  IN  IF r = ThrowV THEN TRUE ELSE Truthy(r)

evaluateCondition(c, vars) ==
  LET r == EvalCondJS(c, vars)
  IN  IF r = ThrowV THEN FALSE ELSE Truthy(r)

\* One comma-separated part of an expression text: its trimmed text and, when it
\* is no quoted literal, the tree it denotes.
Lit(s) == [text |-> <<"\"">> \o s \o <<"\"">>, e |-> E_Num(0)]
Ref(e) == [text |-> SourceText(e), e |-> e]

IsQuote(c) == c \in {"\"", "'"}

\* expr.includes('"') || expr.includes("'")
HasQuote(parts) == \E i \in DOMAIN parts : \E j \in DOMAIN parts[i].text : IsQuote(parts[i].text[j])

\* trimmed.startsWith(q) && trimmed.endsWith(q)
IsQuoted(text) ==
  Len(text) > 0 /\ \E q \in {"\"", "'"} : text[1] = q /\ text[Len(text)] = q

\* trimmed.slice(1, -1)
Unquote(text) == SubSeq(text, 2, Len(text) - 1)

UndefinedError(name) == [msg |-> "no ha sido definida", name |-> name]

\* the result pushed for one part of the concatenation list, and the error
\* recorded for it (at most one)
PartResult(part, vars) ==
  CASE IsQuoted(part.text) -> [s |-> Unquote(part.text), errors |-> <<>>]
    [] ~IsQuoted(part.text) /\ MapHas(vars, toLowerCase(part.text)) ->
         [s |-> String(MapGet(vars, toLowerCase(part.text)).value), errors |-> <<>>]
    [] ~IsQuoted(part.text) /\ ~MapHas(vars, toLowerCase(part.text))
         /\ IsIdentifier(part.text) /\ ~AllDigits(part.text) ->
         [s |-> <<"[">> \o part.text \o <<"?", "]">>,
          errors |-> <<UndefinedError(part.text)>>]
    [] OTHER -> [s |-> String(evaluateSimpleExpression(part.e, vars)), errors |-> <<>>]

RECURSIVE ConcatErrors(_, _)
ConcatErrors(parts, vars) ==
  IF Len(parts) = 0 THEN <<>>
  ELSE PartResult(parts[1], vars).errors \o ConcatErrors(Tail(parts), vars)

\* a concatenation that joins its parts without the separating space
evaluateExpression_NoSeparator(parts, vars) ==
  IF HasQuote(parts)
  THEN [value |-> StrV(JoinWith([i \in DOMAIN parts |-> PartResult(parts[i], vars).s], <<>>)),
        errors |-> ConcatErrors(parts, vars)]
  ELSE [value |-> evaluateSimpleExpression(parts[1].e, vars), errors |-> <<>>]

\* evaluateExpression: the value returned and the errors it pushed (it sets
\* hasError exactly when it pushes one)
evaluateExpression(parts, vars) ==
  IF HasQuote(parts)
  THEN [value |-> StrV(JoinWith([i \in DOMAIN parts |-> PartResult(parts[i], vars).s], <<" ">>)),
        errors |-> ConcatErrors(parts, vars)]
  ELSE [value |-> evaluateSimpleExpression(parts[1].e, vars), errors |-> <<>>]

(***************************************************************************)
(* Source lines                                                            *)
(***************************************************************************)
NoLine ==
  [kw |-> "otro", ok |-> FALSE, asg |-> FALSE, semi |-> FALSE,
   name |-> <<>>, type |-> <<>>, size |-> 0, names |-> <<>>, parts |-> <<>>,
   cond |-> E_Bool(FALSE), from |-> 0, to |-> 0, step |-> 1,
   values |-> <<>>, indexed |-> FALSE, idx |-> E_Num(0), toolong |-> FALSE]

Algoritmo == [NoLine EXCEPT !.kw = "algoritmo"]
FinAlgoritmo == [NoLine EXCEPT !.kw = "finalgoritmo"]
Blank == [NoLine EXCEPT !.kw = "blank"]
Comment == [NoLine EXCEPT !.kw = "comment"]
Definir(name, type) ==
  [NoLine EXCEPT !.kw = "definir", !.ok = TRUE, !.semi = TRUE, !.name = name, !.type = type]
Dimension(name, size) ==
  [NoLine EXCEPT !.kw = "dimension", !.ok = TRUE, !.semi = TRUE, !.name = name, !.size = size]
\* Dimension name[n] with a literal n above 4294967295, the longest array
\* JavaScript allows: new Array(n) throws RangeError
DimensionTooLong(name) ==
  [NoLine EXCEPT !.kw = "dimension", !.ok = TRUE, !.semi = TRUE, !.name = name,
                 !.toolong = TRUE]
Leer(names) ==
  [NoLine EXCEPT !.kw = "leer", !.ok = TRUE, !.semi = TRUE, !.names = names]
Escribir(parts) ==
  [NoLine EXCEPT !.kw = "escribir", !.ok = TRUE, !.semi = TRUE, !.parts = parts]
Mientras(cond) == [NoLine EXCEPT !.kw = "mientras", !.ok = TRUE, !.cond = cond]
FinMientras == [NoLine EXCEPT !.kw = "finmientras"]
Para(name, from, to) ==
  [NoLine EXCEPT !.kw = "para", !.ok = TRUE, !.name = name, !.from = from, !.to = to]
ParaConPaso(name, from, to, step) ==
  [NoLine EXCEPT !.kw = "para", !.ok = TRUE, !.name = name, !.from = from, !.to = to,
                 !.step = step]
FinPara == [NoLine EXCEPT !.kw = "finpara"]
Segun(name) == [NoLine EXCEPT !.kw = "segun", !.ok = TRUE, !.name = name]
Caso(values) == [NoLine EXCEPT !.kw = "caso", !.values = values]
DeOtroModo == [NoLine EXCEPT !.kw = "deotromodo"]
FinSegun == [NoLine EXCEPT !.kw = "finsegun"]
Si(cond) == [NoLine EXCEPT !.kw = "si", !.ok = TRUE, !.cond = cond]
SiNo == [NoLine EXCEPT !.kw = "sino"]
SiNoSi(cond) == [NoLine EXCEPT !.kw = "sinosi", !.ok = TRUE, !.cond = cond]
FinSi == [NoLine EXCEPT !.kw = "finsi"]
\* String.prototype.startsWith
StartsWith(s, p) == Len(s) >= Len(p) /\ SubSeq(s, 1, Len(p)) = p

\* the prefixes executeLine tests with startsWith, in the order it tests them,
\* then the terminators the block scans test with startsWith
KeywordTexts ==
  <<
     <<"algoritmo", <<"a", "l", "g", "o", "r", "i", "t", "m", "o">>>>,
     <<"proceso", <<"p", "r", "o", "c", "e", "s", "o">>>>,
     <<"finalgoritmo", <<"f", "i", "n", "a", "l", "g", "o", "r", "i", "t", "m",
        "o">>>>,
     <<"finproceso", <<"f", "i", "n", "p", "r", "o", "c", "e", "s", "o">>>>,
     <<"definir", <<"d", "e", "f", "i", "n", "i", "r">>>>,
     <<"dimension", <<"d", "i", "m", "e", "n", "s", "i", "o", "n">>>>,
     <<"leer", <<"l", "e", "e", "r">>>>,
     <<"escribir", <<"e", "s", "c", "r", "i", "b", "i", "r">>>>,
     <<"mientras", <<"m", "i", "e", "n", "t", "r", "a", "s">>>>,
     <<"para", <<"p", "a", "r", "a">>>>,
     <<"segun", <<"s", "e", "g", "u", "n">>>>,
     <<"si", <<"s", "i">>>>,
     <<"finmientras", <<"f", "i", "n", "m", "i", "e", "n", "t", "r", "a", "s">>>>,
     <<"finpara", <<"f", "i", "n", "p", "a", "r", "a">>>>,
     <<"finsegun", <<"f", "i", "n", "s", "e", "g", "u", "n">>>>
  >>

\* the keyword the lower-cased text of a line starts with: the first startsWith
\* test of executeLine it passes ("si" only when it does not start with
\* "sino"), else the terminator prefix it carries, else "otro"
KeywordPrefix(text) ==
  LET t == toLowerCase(text)
      hit(i) == /\ StartsWith(t, KeywordTexts[i][2])
                /\ KeywordTexts[i][1] = "si" => ~StartsWith(t, <<"s", "i", "n", "o">>)
  IN  IF \E i \in DOMAIN KeywordTexts : hit(i)
      THEN KeywordTexts[CHOOSE i \in DOMAIN KeywordTexts :
                          hit(i) /\ \A k \in 1..(i - 1) : ~hit(k)][1]
      ELSE "otro"

\* name <- parts: the line starts with its target
\* an identifier that begins with the letters of a keyword: the keyword's text
\* followed by "1"
PrefixedName(kw) ==
  KeywordTexts[CHOOSE i \in DOMAIN KeywordTexts : KeywordTexts[i][1] = kw][2] \o <<"1">>

Asignar(name, parts) ==
  [NoLine EXCEPT !.kw = KeywordPrefix(name), !.asg = TRUE, !.semi = TRUE, !.name = name,
                 !.parts = parts]
AsignarElemento(name, idx, parts) ==
  [NoLine EXCEPT !.kw = KeywordPrefix(name), !.asg = TRUE, !.semi = TRUE, !.name = name,
                 !.parts = parts, !.indexed = TRUE, !.idx = idx]

\* lines[i]
LineAt(ls, i) == ls[i + 1]

\* the map/filter chain of execute: trailing ";" removed, blank lines and
\* comment lines dropped
Preprocess(code) ==
  LET stripped == [i \in DOMAIN code |-> [code[i] EXCEPT !.semi = FALSE]]
  IN  SelectSeq(stripped, LAMBDA l : l.kw \notin {"blank", "comment"})

\* a dispatch on the keyword prefix alone, whether or not the statement's
\* regular expression matches
Statement_IgnoresMatch(l) ==
  CASE l.kw \in {"algoritmo", "proceso", "finalgoritmo", "finproceso"} -> "skip"
    [] l.kw \in {"definir", "dimension", "leer", "escribir", "mientras", "para", "segun",
                 "si", "sinosi"} -> l.kw
    [] OTHER -> IF l.asg THEN "asignar" ELSE "skip"

\* the branch of executeLine a line takes
Statement(l) ==
  CASE l.kw \in {"algoritmo", "proceso", "finalgoritmo", "finproceso"} -> "skip"
    [] l.kw \in {"definir", "dimension", "leer", "escribir"} ->
         IF l.ok THEN l.kw ELSE "skip"
    [] l.kw \in {"mientras", "para", "segun", "si", "sinosi"} /\ l.ok -> l.kw
    [] OTHER -> IF l.asg THEN "asignar" ELSE "skip"

(***************************************************************************)
(* Block resolution                                                        *)
(***************************************************************************)
RECURSIVE ScanFamily(_, _, _, _, _)
\* the depth-counting loop of the while and for handlers
ScanFamily(ls, endIndex, depth, open, close) ==
  IF endIndex < Len(ls) /\ depth > 0
  THEN LET ck == LineAt(ls, endIndex)
           d1 == IF ck.kw = open THEN depth + 1 ELSE depth
           d2 == IF ck.kw = close THEN d1 - 1 ELSE d1
       IN  ScanFamily(ls, endIndex + 1, d2, open, close)
  ELSE endIndex

\* a while scan that hands back one more than the number of lines when it
\* finds no terminator
MientrasEnd_PastEnd(ls, index) ==
  LET e == ScanFamily(ls, index + 1, 1, "mientras", "finmientras")
  IN  IF LineAt(ls, e - 1).kw = "finmientras" THEN e ELSE e + 1

MientrasEnd(ls, index) == ScanFamily(ls, index + 1, 1, "mientras", "finmientras")

ParaEnd(ls, index) == ScanFamily(ls, index + 1, 1, "para", "finpara")

\* /^si\s+/.test(checkLine) && checkLine.includes('entonces')
IsSiOpener(l) == l.kw = "si" /\ l.ok

\* checkLine === 'sino' || /^sino\s+si\s+/.test(checkLine)
IsSinoLine(l) == l.kw \in {"sino", "sinosi"}

RECURSIVE SiScan_LastSino(_, _, _, _)
\* an if scan that keeps the last sino / sino si at depth 1, not the first
SiScan_LastSino(ls, endIndex, depth, sinoIndex) ==
  IF endIndex < Len(ls) /\ depth > 0
  THEN LET ck == LineAt(ls, endIndex)
           d1 == IF IsSiOpener(ck) THEN depth + 1 ELSE depth
           d2 == IF ck.kw = "finsi" THEN d1 - 1 ELSE d1
           s2 == IF d2 = 1 /\ IsSinoLine(ck) THEN endIndex ELSE sinoIndex
       IN  SiScan_LastSino(ls, endIndex + 1, d2, s2)
  ELSE [sinoIndex |-> sinoIndex, endIndex |-> endIndex]

RECURSIVE SiScan(_, _, _, _)
\* the scan of the si handler: [sinoIndex, endIndex]
SiScan(ls, endIndex, depth, sinoIndex) ==
  IF endIndex < Len(ls) /\ depth > 0
  THEN LET ck == LineAt(ls, endIndex)
           d1 == IF IsSiOpener(ck) THEN depth + 1 ELSE depth
           d2 == IF ck.kw = "finsi" THEN d1 - 1 ELSE d1
           s2 == IF d2 = 1 /\ sinoIndex = -1 /\ IsSinoLine(ck) THEN endIndex ELSE sinoIndex
       IN  SiScan(ls, endIndex + 1, d2, s2)
  ELSE [sinoIndex |-> sinoIndex, endIndex |-> endIndex]

RECURSIVE SinoSiScan(_, _, _)
\* the first scan of the sino-si handler: the next sino / sino si at depth 1
SinoSiScan(ls, endIndex, depth) ==
  IF endIndex < Len(ls) /\ depth > 0
  THEN LET ck == LineAt(ls, endIndex)
           d1 == IF IsSiOpener(ck) THEN depth + 1 ELSE depth
           d2 == IF ck.kw = "finsi" THEN d1 - 1 ELSE d1
       IN  IF d2 = 1 /\ IsSinoLine(ck) THEN endIndex
           ELSE SinoSiScan(ls, endIndex + 1, d2)
  ELSE -1

RECURSIVE FinSiScan(_, _, _)
\* the second scan of the sino-si handler: one past the matching finsi
FinSiScan(ls, finsiIndex, depth) ==
  IF finsiIndex < Len(ls) /\ depth > 0
  THEN LET ck == LineAt(ls, finsiIndex)
           d1 == IF IsSiOpener(ck) THEN depth + 1 ELSE depth
           d2 == IF ck.kw = "finsi" THEN d1 - 1 ELSE d1
       IN  FinSiScan(ls, finsiIndex + 1, d2)
  ELSE finsiIndex

\* one value of a case list: a quoted literal, a number, or the bare token
CaseValue(text) ==
  IF IsQuoted(text) THEN StrV(Unquote(text))
  ELSE IF parseFloat(text).t = "num" THEN parseFloat(text)
  ELSE StrV(text)

NoDefault == [present |-> FALSE, startLine |-> -1, endLine |-> -1]

SegunStart(index) ==
  [depth |-> 1, endIndex |-> index + 1, cases |-> <<>>, defaultCase |-> NoDefault,
   currentCaseStart |-> -1, currentCaseValues |-> <<>>]

\* the "finsegun" branch of one iteration of the segun scan
SegunClose(st, ck) ==
  IF ck.kw # "finsegun" THEN st
  ELSE LET d == st.depth - 1
       IN  IF d = 0 /\ st.currentCaseStart # -1
           THEN IF Len(st.currentCaseValues) > 0
                THEN [st EXCEPT !.depth = d,
                                !.cases = Append(@, [values |-> st.currentCaseValues,
                                                     startLine |-> st.currentCaseStart,
                                                     endLine |-> st.endIndex])]
                ELSE IF st.defaultCase.present
                        /\ st.defaultCase.startLine = st.currentCaseStart
                THEN [st EXCEPT !.depth = d, !.defaultCase.endLine = st.endIndex]
                ELSE [st EXCEPT !.depth = d]
           ELSE [st EXCEPT !.depth = d]

\* "Save previous case if exists"
SegunSave(st) ==
  IF st.currentCaseStart # -1 /\ Len(st.currentCaseValues) > 0
  THEN [st EXCEPT !.cases = Append(@, [values |-> st.currentCaseValues,
                                       startLine |-> st.currentCaseStart,
                                       endLine |-> st.endIndex])]
  ELSE st

\* the "depth === 1" branch of one iteration of the segun scan
SegunMarker(st, ck) ==
  IF st.depth # 1 THEN st
  ELSE IF ck.kw = "caso"
  THEN [SegunSave(st) EXCEPT
          !.currentCaseValues = [i \in DOMAIN ck.values |-> CaseValue(ck.values[i])],
          !.currentCaseStart = st.endIndex + 1]
  ELSE IF ck.kw = "deotromodo"
  THEN [SegunSave(st) EXCEPT
          !.currentCaseValues = <<>>,
          !.defaultCase = [present |-> TRUE, startLine |-> st.endIndex + 1, endLine |-> -1],
          !.currentCaseStart = st.endIndex + 1]
  ELSE st

RECURSIVE SegunScan(_, _)
\* the scan of the segun handler: the case partition, the default range and
\* endIndex
SegunScan(ls, st) ==
  IF st.endIndex < Len(ls) /\ st.depth > 0
  THEN LET ck == LineAt(ls, st.endIndex)
           s1 == IF ck.kw = "segun" THEN [st EXCEPT !.depth = @ + 1] ELSE st
           s2 == SegunClose(s1, ck)
           s3 == SegunMarker(s2, ck)
       IN  SegunScan(ls, [s3 EXCEPT !.endIndex = @ + 1])
  ELSE st

\* a case comparison that does not fold letter case
CaseMatches_CaseSensitive(values, varValue) ==
  \E i \in DOMAIN values :
    IF values[i].t = "num" /\ IsNumber(varValue)
    THEN StrictEquals(values[i], varValue)
    ELSE String(values[i]) = String(varValue)

\* caseItem.values.some(...)
CaseMatches(values, varValue) ==
  \E i \in DOMAIN values :
    IF values[i].t = "num" /\ IsNumber(varValue)
    THEN StrictEquals(values[i], varValue)
    ELSE toLowerCase(String(values[i])) = toLowerCase(String(varValue))

\* the index in cases of the first matching case, 0 when none matches
FirstMatch(cases, varValue) ==
  IF \E i \in DOMAIN cases : CaseMatches(cases[i].values, varValue)
  THEN CHOOSE i \in DOMAIN cases :
         /\ CaseMatches(cases[i].values, varValue)
         /\ \A k \in 1..(i - 1) : ~CaseMatches(cases[k].values, varValue)
  ELSE 0

(***************************************************************************)
(* The interpreter's state                                                 *)
(***************************************************************************)
VARIABLES
  code,           \* the source text given to execute
  pc,             \* "idle", "running", "awaiting" (suspended in inputCallback), "done"
  lines,          \* the preprocessed line list of the run
  inputCallback,  \* TRUE once setInputCallback attached a provider
  variables,      \* this.variables
  output,         \* this.output
  errors,         \* this.errors
  flowchart,      \* this.flowchart
  nodeCounter,    \* this.nodeCounter
  hasError,       \* this.hasError
  stack,          \* the activations of execute / executeLine, innermost last
  result,         \* what execute returned
  sink,           \* the snapshots received by variableChangeCallback
  prompts,        \* the identifiers inputCallback was called for
  answers,        \* the strings inputCallback resolved with
  executed,       \* the indices executeLine was called with, in order
  loops,          \* the while / for dispatches that returned, with their passes
                  \* (and, for a while, its condition evaluations and the last one)
  retired,        \* the contents of the output / errors / flowchart arrays that earlier
                  \* resets left behind, oldest first
  returned,       \* the result objects execute returned on this instance, oldest first
  host,           \* the state of the IDE component that runs the interpreter
  parked,         \* the suspended runs of interpreters the host no longer refers to;
                  \* the suspended earlier calls of execute on this interpreter
  stopped         \* the runs stopped while suspended, as they were when stopped

vars == <<code, pc, lines, inputCallback, variables, output, errors, flowchart,
          nodeCounter, hasError, stack, result, sink, prompts, answers, executed,
          loops, retired, returned, host, parked, stopped>>

maxIterations == 100

NoResult == [returned |-> FALSE]

\* the component before its first run: useState / useRef initial values; run is
\* the number of interpreters created so far (interpreterRef names the last one,
\* inputResolverRef the run whose pending request it resolves, 0 for null),
\* delivered the last run whose result was put on display
NoHost ==
  [isRunning |-> FALSE, inputModalOpen |-> FALSE, inputResolverRef |-> 0, run |-> 0,
   delivered |-> 0, output |-> <<>>, errors |-> <<>>, flowchart |-> <<>>]

\* the number of executes the runs on one interpreter, and the runs of the host,
\* are followed for
MaxRuns == 3

\* the arrays this.output, this.errors and this.flowchart are bound to
Arrays == [output |-> output, errors |-> errors, flowchart |-> flowchart]

\* addFlowchartNode on (flowchart, nodeCounter); the id `node_${n}` is n
AddNode(fc, nc, type, text) ==
  Append(fc, [id |-> nc, type |-> type, text |-> text, children |-> <<>>])

\* Stitch that also draws a loop-back edge from the last node to the first
Stitch_LoopsBack(fc) ==
  [j \in DOMAIN fc |->
     [fc[j] EXCEPT !.children = Append(@, fc[IF j < Len(fc) THEN j + 1 ELSE 1].id)]]

\* "Connect nodes sequentially"
Stitch(fc) ==
  [j \in DOMAIN fc |->
     IF j < Len(fc) THEN [fc[j] EXCEPT !.children = Append(@, fc[j + 1].id)] ELSE fc[j]]

\* One activation: `index` is the line of the statement, j the loop variable of
\* its body loop, limit the bound of that loop, ret the index it returns.
Frame(kind, index, j, limit, ret) ==
  [kind |-> kind, index |-> index, j |-> j, limit |-> limit, ret |-> ret,
   iterations |-> 0, v |-> 0, passes |-> 0, k |-> 0]

Top == stack[Len(stack)]

Cur == LineAt(lines, Top.j)

\* a body loop that does not test the fatal flag
BodyActive_IgnoresError(f) == f.j < f.limit

\* the guard of every body loop: while (j < limit && !this.hasError)
BodyActive(f) == f.j < f.limit /\ ~hasError

CanDispatch(kind) ==
  /\ pc = "running"
  /\ Len(stack) > 0
  /\ Top.kind # "leer"
  /\ BodyActive(Top)
  /\ Statement(Cur) = kind

BodyDone(kind) ==
  /\ pc = "running"
  /\ Len(stack) > 0
  /\ Top.kind = kind
  /\ ~BodyActive(Top)

\* j = <value returned by executeLine> in the innermost activation
Advance(to) == [stack EXCEPT ![Len(stack)].j = to]

\* the innermost activation returns `to` to its caller's body loop
Return(to) ==
  LET s == SubSeq(stack, 1, Len(stack) - 1)
  IN  [s EXCEPT ![Len(s)].j = to]

Init ==
  /\ code = <<>>
  /\ pc = "idle"
  /\ lines = <<>>
  /\ inputCallback = FALSE
  /\ variables = <<>>
  /\ output = <<>>
  /\ errors = <<>>
  /\ flowchart = <<>>
  /\ nodeCounter = 0
  /\ hasError = FALSE
  /\ stack = <<>>
  /\ result = NoResult
  /\ sink = <<>>
  /\ prompts = <<>>
  /\ answers = <<>>
  /\ executed = <<>>
  /\ loops = <<>>
  /\ retired = <<>>
  /\ returned = <<>>
  /\ host = NoHost
  /\ parked = <<>>
  /\ stopped = <<>>

SetInputCallback ==
  /\ pc = "idle"
  /\ ~inputCallback
  /\ inputCallback' = TRUE
  /\ UNCHANGED <<retired, returned, host, parked, stopped>>
  /\ UNCHANGED <<code, pc, lines, variables, output, errors, flowchart, nodeCounter,
                 hasError, stack, result, sink, prompts, executed, loops, answers>>

\* an execute that adds no start node for a program without lines
Execute_NoStartWhenEmpty(source) ==
  /\ pc = "idle"
  /\ pc' = "running"
  /\ code' = source
  /\ lines' = Preprocess(source)
  /\ variables' = <<>>
  /\ output' = <<>>
  /\ errors' = <<>>
  /\ flowchart' = IF Preprocess(source) = <<>> THEN <<>>
                  ELSE AddNode(<<>>, 0, "start", "Inicio")
  /\ nodeCounter' = IF Preprocess(source) = <<>> THEN 0 ELSE 1
  /\ hasError' = FALSE
  /\ stack' = <<Frame("main", -1, 0, Len(Preprocess(source)), -1)>>
  /\ retired' = Append(retired, Arrays)
  /\ UNCHANGED <<returned, host, parked, stopped>>
  /\ UNCHANGED <<inputCallback, result, sink, prompts, executed, loops, answers>>

\* a reset that empties the three arrays in place (length = 0) instead of
\* binding new ones
reset_ClearsInPlace ==
  [variables |-> <<>>, output |-> <<>>, errors |-> <<>>, flowchart |-> <<>>,
   nodeCounter |-> 0, hasError |-> FALSE, fresh |-> FALSE]

\* reset(): the value each field gets; fresh says that output, errors and
\* flowchart are bound to new arrays, so the arrays bound before keep their
\* contents
reset ==
  [variables |-> <<>>, output |-> <<>>, errors |-> <<>>, flowchart |-> <<>>,
   nodeCounter |-> 0, hasError |-> FALSE, fresh |-> TRUE]

\* execute(code) up to its loop: reset, preprocessing, the start node. The
\* observations (sink, prompts, answers, executed, loops, result) are those of
\* the run that starts.
Start(source) ==
  /\ pc' = "running"
  /\ code' = source
  /\ lines' = Preprocess(source)
  /\ variables' = reset.variables
  /\ output' = reset.output
  /\ errors' = reset.errors
  /\ flowchart' = AddNode(reset.flowchart, reset.nodeCounter, "start", "Inicio")
  /\ nodeCounter' = reset.nodeCounter + 1
  /\ hasError' = reset.hasError
  /\ stack' = <<Frame("main", -1, 0, Len(Preprocess(source)), -1)>>
  /\ result' = NoResult
  /\ sink' = <<>>
  /\ prompts' = <<>>
  /\ answers' = <<>>
  /\ executed' = <<>>
  /\ loops' = <<>>

\* the first execute on an interpreter
Execute(source) ==
  /\ pc = "idle"
  /\ Start(source)
  /\ retired' = IF reset.fresh THEN Append(retired, Arrays) ELSE retired
  /\ UNCHANGED <<inputCallback, returned, host, parked, stopped>>

\* a later execute on the same interpreter, after the run before it returned or
\* was left suspended for good
ExecuteAgain(source) ==
  /\ pc \in {"done", "awaiting"}
  /\ Len(retired) < MaxRuns
  /\ Start(source)
  /\ retired' = IF reset.fresh THEN Append(retired, Arrays) ELSE retired
  /\ UNCHANGED <<inputCallback, returned, host, parked, stopped>>

\* an execute that returns early when halted: no end node, no edges
Finish_NoEndWhenHalted ==
  /\ BodyDone("main")
  /\ pc' = "done"
  /\ flowchart' = IF hasError THEN flowchart
                  ELSE Stitch(AddNode(flowchart, nodeCounter, "end", "Fin"))
  /\ nodeCounter' = IF hasError THEN nodeCounter ELSE nodeCounter + 1
  /\ result' = [returned |-> TRUE, output |-> output, errors |-> errors,
                flowchart |-> flowchart']
  /\ stack' = <<>>
  /\ returned' = Append(returned, [code |-> code, answers |-> answers, at |-> Len(retired),
                                   output |-> output, errors |-> errors,
                                   flowchart |-> flowchart'])
  /\ UNCHANGED <<retired, host, parked, stopped>>
  /\ UNCHANGED <<code, lines, inputCallback, variables, output, errors, hasError, sink,
                 prompts, executed, loops, answers>>

\* the end of execute: the end node, the sequential edges, the result
Finish ==
  /\ BodyDone("main")
  /\ pc' = "done"
  /\ flowchart' = Stitch(AddNode(flowchart, nodeCounter, "end", "Fin"))
  /\ nodeCounter' = nodeCounter + 1
  /\ result' = [returned |-> TRUE, output |-> output, errors |-> errors,
                flowchart |-> flowchart']
  /\ stack' = <<>>
  /\ returned' = Append(returned, [code |-> code, answers |-> answers, at |-> Len(retired),
                                   output |-> output, errors |-> errors,
                                   flowchart |-> flowchart'])
  /\ UNCHANGED <<retired, host, parked, stopped>>
  /\ UNCHANGED <<code, lines, inputCallback, variables, output, errors, hasError, sink,
                 prompts, executed, loops, answers>>

\* program open/close, block terminators, branch markers, unmatched lines
ExecSkip ==
  /\ CanDispatch("skip")
  /\ executed' = Append(executed, Top.j)
  /\ stack' = Advance(Top.j + 1)
  /\ UNCHANGED <<retired, returned, host, parked, stopped>>
  /\ UNCHANGED <<code, pc, lines, inputCallback, variables, output, errors, flowchart,
                 nodeCounter, hasError, result, sink, prompts, loops, answers>>

ExecDefinir ==
  /\ CanDispatch("definir")
  /\ executed' = Append(executed, Top.j)
  /\ variables' = MapSet(variables,
                         Variable(Cur.name, toLowerCase(Cur.type), getDefaultValue(Cur.type)))
  /\ sink' = Append(sink, variables')
  /\ flowchart' = AddNode(flowchart, nodeCounter, "process", "Definir")
  /\ nodeCounter' = nodeCounter + 1
  /\ stack' = Advance(Top.j + 1)
  /\ UNCHANGED <<retired, returned, host, parked, stopped>>
  /\ UNCHANGED <<code, pc, lines, inputCallback, output, errors, hasError, result, prompts, loops, answers>>

\* the message `Error en linea ${i + 1}: ${error}` pushed by the catch of execute
ThrownError == [msg |-> "Error en linea", name |-> <<>>]

\* an exception thrown in executeLine leaves every activation up to the loop
\* of execute, whose i it does not change
Unwind == <<stack[1]>>

ExecDimension ==
  /\ CanDispatch("dimension")
  /\ executed' = Append(executed, Top.j)
  /\ IF Cur.toolong
     THEN /\ errors' = Append(errors, ThrownError)
          /\ hasError' = TRUE
          /\ stack' = Unwind
          /\ UNCHANGED <<variables, sink, flowchart, nodeCounter>>
     ELSE /\ variables' = MapSet(variables,
                                 Variable(Cur.name, S_arreglo,
                                          ArrV([i \in 1..Cur.size |-> NumV(0)])))
          /\ sink' = Append(sink, variables')
          /\ flowchart' = AddNode(flowchart, nodeCounter, "process", "Dimension")
          /\ nodeCounter' = nodeCounter + 1
          /\ stack' = Advance(Top.j + 1)
          /\ UNCHANGED <<errors, hasError>>
  /\ UNCHANGED <<retired, returned, host, parked, stopped>>
  /\ UNCHANGED <<code, pc, lines, inputCallback, output, result, prompts, loops, answers>>

\* an output handler that writes nothing and emits no node when its
\* expression recorded an error
ExecEscribir_AbortsOnError ==
  /\ CanDispatch("escribir")
  /\ executed' = Append(executed, Top.j)
  /\ LET r == evaluateExpression(Cur.parts, variables)
     IN  /\ errors' = errors \o r.errors
         /\ hasError' = (hasError \/ Len(r.errors) > 0)
         /\ IF Len(r.errors) > 0
            THEN UNCHANGED <<output, flowchart, nodeCounter>>
            ELSE /\ output' = Append(output, String(r.value))
                 /\ flowchart' = AddNode(flowchart, nodeCounter, "output", "Escribir")
                 /\ nodeCounter' = nodeCounter + 1
  /\ stack' = Advance(Top.j + 1)
  /\ UNCHANGED <<retired, returned, host, parked, stopped>>
  /\ UNCHANGED <<code, pc, lines, inputCallback, variables, result, sink, prompts, loops, answers>>

\* an output handler that emits its node only when the expression evaluated
\* without error
ExecEscribir_NodeOnSuccess ==
  /\ CanDispatch("escribir")
  /\ executed' = Append(executed, Top.j)
  /\ LET r == evaluateExpression(Cur.parts, variables)
     IN  /\ output' = Append(output, String(r.value))
         /\ errors' = errors \o r.errors
         /\ hasError' = (hasError \/ Len(r.errors) > 0)
         /\ IF Len(r.errors) > 0
            THEN UNCHANGED <<flowchart, nodeCounter>>
            ELSE /\ flowchart' = AddNode(flowchart, nodeCounter, "output", "Escribir")
                 /\ nodeCounter' = nodeCounter + 1
  /\ stack' = Advance(Top.j + 1)
  /\ UNCHANGED <<retired, returned, host, parked, stopped>>
  /\ UNCHANGED <<code, pc, lines, inputCallback, variables, result, sink, prompts, loops, answers>>

ExecEscribir ==
  /\ CanDispatch("escribir")
  /\ executed' = Append(executed, Top.j)
  /\ LET r == evaluateExpression(Cur.parts, variables)
     IN  /\ output' = Append(output, String(r.value))
         /\ errors' = errors \o r.errors
         /\ hasError' = (hasError \/ Len(r.errors) > 0)
  /\ flowchart' = AddNode(flowchart, nodeCounter, "output", "Escribir")
  /\ nodeCounter' = nodeCounter + 1
  /\ stack' = Advance(Top.j + 1)
  /\ UNCHANGED <<retired, returned, host, parked, stopped>>
  /\ UNCHANGED <<code, pc, lines, inputCallback, variables, result, sink, prompts, loops, answers>>

\* an input coercion that stores the supplied text whatever the declared type
Coerce_KeepsText(type, value) == StrV(value)

\* the coercion of an input string by the declared type of the variable
Coerce(type, value) ==
  CASE type \in {S_entero, S_real} ->
         LET n == parseFloat(value)
         IN  IF n.t = "nan" \/ n.n = 0 THEN NumV(0) ELSE n
    [] type = S_logico -> BoolV(toLowerCase(Trim(value)) = S_verdadero)
    [] OTHER -> StrV(value)

RECURSIVE LeerFrom(_, _, _, _)
\* the for loop of the input handler from its k-th identifier up to the next
\* suspension ("await"), the first undeclared identifier ("error") or its end
LeerFrom(names, k, vs, snk) ==
  IF k > Len(names)
  THEN [status |-> "done", k |-> k, variables |-> vs, sink |-> snk]
  ELSE IF ~MapHas(vs, toLowerCase(names[k]))
  THEN [status |-> "error", k |-> k, variables |-> vs, sink |-> snk]
  ELSE IF inputCallback
  THEN [status |-> "await", k |-> k, variables |-> vs, sink |-> snk]
  ELSE LET key == toLowerCase(names[k])
           v2 == SetValue(vs, key, Coerce(MapGet(vs, key).type, <<>>))
       IN  LeerFrom(names, k + 1, v2, Append(snk, v2))

\* an input handler that emits its input node also when it fails
LeerOutcome_NodeOnAbort(r, index, names, base) ==
  /\ variables' = r.variables
  /\ sink' = r.sink
  /\ CASE r.status = "done" ->
            /\ flowchart' = AddNode(flowchart, nodeCounter, "input", "Leer")
            /\ nodeCounter' = nodeCounter + 1
            /\ stack' = [base EXCEPT ![Len(base)].j = index + 1]
            /\ pc' = "running"
            /\ UNCHANGED <<errors, hasError, prompts>>
       [] r.status = "error" ->
            /\ errors' = Append(errors, UndefinedError(names[r.k]))
            /\ hasError' = TRUE
            /\ flowchart' = AddNode(flowchart, nodeCounter, "input", "Leer")
            /\ nodeCounter' = nodeCounter + 1
            /\ stack' = [base EXCEPT ![Len(base)].j = index + 1]
            /\ pc' = "running"
            /\ UNCHANGED prompts
       [] r.status = "await" ->
            /\ prompts' = Append(prompts, names[r.k])
            /\ stack' = Append(base, [Frame("leer", index, index, index, index + 1)
                                        EXCEPT !.k = r.k])
            /\ pc' = "awaiting"
            /\ UNCHANGED <<errors, hasError, flowchart, nodeCounter>>

\* the effect of the input handler once LeerFrom stopped with r; `index` is the
\* line of the statement and `base` the stack with its caller innermost
LeerOutcome(r, index, names, base) ==
  /\ variables' = r.variables
  /\ sink' = r.sink
  /\ CASE r.status = "done" ->
            /\ flowchart' = AddNode(flowchart, nodeCounter, "input", "Leer")
            /\ nodeCounter' = nodeCounter + 1
            /\ stack' = [base EXCEPT ![Len(base)].j = index + 1]
            /\ pc' = "running"
            /\ UNCHANGED <<errors, hasError, prompts>>
       [] r.status = "error" ->
            /\ errors' = Append(errors, UndefinedError(names[r.k]))
            /\ hasError' = TRUE
            /\ stack' = [base EXCEPT ![Len(base)].j = index + 1]
            /\ pc' = "running"
            /\ UNCHANGED <<flowchart, nodeCounter, prompts>>
       [] r.status = "await" ->
            /\ prompts' = Append(prompts, names[r.k])
            /\ stack' = Append(base, [Frame("leer", index, index, index, index + 1)
                                        EXCEPT !.k = r.k])
            /\ pc' = "awaiting"
            /\ UNCHANGED <<errors, hasError, flowchart, nodeCounter>>

\* handleInput: the promise's resolver is kept in inputResolverRef and the modal
\* opens
handleInput(h) == [h EXCEPT !.inputResolverRef = h.run, !.inputModalOpen = TRUE]

\* the provider the IDE attached is handleInput; it is called when the handler
\* suspends (p is the position the handler got to)
Requested(h, p) == IF p = "awaiting" /\ h.run # 0 THEN handleInput(h) ELSE h

\* the input handler up to its first suspension
ExecLeer ==
  /\ CanDispatch("leer")
  /\ executed' = Append(executed, Top.j)
  /\ LeerOutcome(LeerFrom(Cur.names, 1, variables, sink), Top.j, Cur.names, stack)
  /\ host' = Requested(host, pc')
  /\ UNCHANGED <<retired, returned, parked, stopped>>
  /\ UNCHANGED <<code, lines, inputCallback, output, result, loops, answers>>

\* the pending request is resolved with `value`; the input handler resumes up to
\* its next suspension
Resume(value) ==
  /\ pc = "awaiting"
  /\ Top.kind = "leer"
  /\ LET names == LineAt(lines, Top.index).names
         key == toLowerCase(names[Top.k])
         v2 == SetValue(variables, key, Coerce(MapGet(variables, key).type, value))
     IN  LeerOutcome(LeerFrom(names, Top.k + 1, v2, Append(sink, v2)), Top.index, names,
                     SubSeq(stack, 1, Len(stack) - 1))
  /\ answers' = Append(answers, value)
  /\ UNCHANGED <<retired, returned>>
  /\ UNCHANGED <<code, lines, inputCallback, output, result, executed, loops>>

\* a provider other than the IDE resolves the pending request
InputResolve(value) ==
  /\ Resume(value)
  /\ UNCHANGED <<host, parked, stopped>>

ArrayError(name) == [msg |-> "no ha sido definido", name |-> name]

\* (arr.value as unknown[])[Number(idx)] = value
ArrayWrite(a, idx, value) ==
  LET n == ToNumber(idx)
  IN  IF n.t = "num" /\ n.n >= 0
      THEN [i \in 1..(IF n.n < Len(a) THEN Len(a) ELSE n.n + 1) |->
              IF i = n.n + 1 THEN value ELSE IF i <= Len(a) THEN a[i] ELSE UndefV]
      ELSE a

\* an element assignment that rejects an index outside the array
AssignElement_RangeChecked(l) ==
  IF ~MapHas(variables, toLowerCase(l.name))
  THEN /\ errors' = Append(errors, ArrayError(l.name))
       /\ hasError' = TRUE
       /\ UNCHANGED <<variables, sink, flowchart, nodeCounter>>
  ELSE LET arr == MapGet(variables, toLowerCase(l.name))
           idx == evaluateExpression(<<Ref(l.idx)>>, variables)
           r == evaluateExpression(l.parts, variables)
           n == ToNumber(idx.value)
           inside == arr.value.t = "arr" /\ n.t = "num" /\ n.n >= 0 /\ n.n < Len(arr.value.a)
       IN  IF inside
           THEN /\ errors' = errors \o idx.errors \o r.errors
                /\ hasError' = (hasError \/ Len(idx.errors \o r.errors) > 0)
                /\ variables' = SetValue(variables, arr.key,
                                         ArrV(ArrayWrite(arr.value.a, idx.value, r.value)))
                /\ sink' = Append(sink, variables')
                /\ flowchart' = AddNode(flowchart, nodeCounter, "process", "<-")
                /\ nodeCounter' = nodeCounter + 1
           ELSE /\ errors' = Append(errors, ArrayError(l.name))
                /\ hasError' = TRUE
                /\ UNCHANGED <<variables, sink, flowchart, nodeCounter>>

\* the assignment handler with an index suffix on its target
AssignElement(l) ==
  IF ~MapHas(variables, toLowerCase(l.name))
  THEN /\ errors' = Append(errors, ArrayError(l.name))
       /\ hasError' = TRUE
       /\ UNCHANGED <<variables, sink, flowchart, nodeCounter>>
  ELSE LET arr == MapGet(variables, toLowerCase(l.name))
           idx == evaluateExpression(<<Ref(l.idx)>>, variables)
           r == evaluateExpression(l.parts, variables)
       IN  /\ errors' = errors \o idx.errors \o r.errors
           /\ hasError' = (hasError \/ Len(idx.errors \o r.errors) > 0)
           /\ IF arr.value.t = "arr"
              THEN /\ variables' = SetValue(variables, arr.key,
                                            ArrV(ArrayWrite(arr.value.a, idx.value, r.value)))
                   /\ sink' = Append(sink, variables')
              ELSE UNCHANGED <<variables, sink>>
           /\ flowchart' = AddNode(flowchart, nodeCounter, "process", "<-")
           /\ nodeCounter' = nodeCounter + 1

\* a scalar assignment that does not notify the sink
AssignScalar_Silent(l) ==
  IF ~MapHas(variables, toLowerCase(l.name))
  THEN /\ errors' = Append(errors, UndefinedError(l.name))
       /\ hasError' = TRUE
       /\ UNCHANGED <<variables, sink, flowchart, nodeCounter>>
  ELSE LET r == evaluateExpression(l.parts, variables)
       IN  /\ errors' = errors \o r.errors
           /\ hasError' = (hasError \/ Len(r.errors) > 0)
           /\ variables' = SetValue(variables, toLowerCase(l.name), r.value)
           /\ sink' = sink
           /\ flowchart' = AddNode(flowchart, nodeCounter, "process", "<-")
           /\ nodeCounter' = nodeCounter + 1

\* a scalar assignment that creates the binding of an undeclared target
AssignScalar_DefinesTarget(l) ==
  IF ~MapHas(variables, toLowerCase(l.name))
  THEN /\ errors' = Append(errors, UndefinedError(l.name))
       /\ hasError' = TRUE
       /\ variables' = MapSet(variables, Variable(l.name, S_entero, NumV(0)))
       /\ UNCHANGED <<sink, flowchart, nodeCounter>>
  ELSE LET r == evaluateExpression(l.parts, variables)
       IN  /\ errors' = errors \o r.errors
           /\ hasError' = (hasError \/ Len(r.errors) > 0)
           /\ variables' = SetValue(variables, toLowerCase(l.name), r.value)
           /\ sink' = Append(sink, variables')
           /\ flowchart' = AddNode(flowchart, nodeCounter, "process", "<-")
           /\ nodeCounter' = nodeCounter + 1

\* a scalar assignment that records the error of an undeclared target without
\* setting the fatal flag
AssignScalar_NoFlag(l) ==
  IF ~MapHas(variables, toLowerCase(l.name))
  THEN /\ errors' = Append(errors, UndefinedError(l.name))
       /\ hasError' = hasError
       /\ UNCHANGED <<variables, sink, flowchart, nodeCounter>>
  ELSE LET r == evaluateExpression(l.parts, variables)
       IN  /\ errors' = errors \o r.errors
           /\ hasError' = (hasError \/ Len(r.errors) > 0)
           /\ variables' = SetValue(variables, toLowerCase(l.name), r.value)
           /\ sink' = Append(sink, variables')
           /\ flowchart' = AddNode(flowchart, nodeCounter, "process", "<-")
           /\ nodeCounter' = nodeCounter + 1

\* the assignment handler with a scalar target
AssignScalar(l) ==
  IF ~MapHas(variables, toLowerCase(l.name))
  THEN /\ errors' = Append(errors, UndefinedError(l.name))
       /\ hasError' = TRUE
       /\ UNCHANGED <<variables, sink, flowchart, nodeCounter>>
  ELSE LET r == evaluateExpression(l.parts, variables)
       IN  /\ errors' = errors \o r.errors
           /\ hasError' = (hasError \/ Len(r.errors) > 0)
           /\ variables' = SetValue(variables, toLowerCase(l.name), r.value)
           /\ sink' = Append(sink, variables')
           /\ flowchart' = AddNode(flowchart, nodeCounter, "process", "<-")
           /\ nodeCounter' = nodeCounter + 1

ExecAsignar ==
  /\ CanDispatch("asignar")
  /\ executed' = Append(executed, Top.j)
  /\ IF Cur.indexed THEN AssignElement(Cur) ELSE AssignScalar(Cur)
  /\ stack' = Advance(Top.j + 1)
  /\ UNCHANGED <<retired, returned, host, parked, stopped>>
  /\ UNCHANGED <<code, pc, lines, inputCallback, output, result, prompts, loops, answers>>

\* a while guard whose cap is off by one
MientrasContinues_OffByOne(cond, iterations) ==
  evaluateCondition(cond, variables) /\ iterations <= maxIterations /\ ~hasError

\* the guard of the while handler's loop, `iterations` passes being done
MientrasContinues(cond, iterations) ==
  evaluateCondition(cond, variables) /\ iterations < maxIterations /\ ~hasError

\* the while handler up to the start of its first pass
ExecMientras ==
  /\ CanDispatch("mientras")
  /\ executed' = Append(executed, Top.j)
  /\ flowchart' = AddNode(flowchart, nodeCounter, "decision", "Mientras")
  /\ nodeCounter' = nodeCounter + 1
  /\ LET index == Top.j
         endIndex == MientrasEnd(lines, index)
     IN  IF MientrasContinues(Cur.cond, 0)
         THEN /\ stack' = Append(stack, [Frame("mientras", index, index + 1, endIndex - 1,
                                               endIndex) EXCEPT !.passes = 1])
              /\ UNCHANGED loops
         ELSE /\ stack' = Advance(endIndex)
              /\ loops' = Append(loops, [kind |-> "mientras", index |-> index, passes |-> 0,
                                         halted |-> hasError, evals |-> 1,
                                         still |-> evaluateCondition(Cur.cond, variables)])
  /\ UNCHANGED <<retired, returned, host, parked, stopped>>
  /\ UNCHANGED <<code, pc, lines, inputCallback, variables, output, errors, hasError, result,
                 sink, prompts, answers>>

\* a while handler that records an error when the cap cuts the loop
MientrasIterate_CapIsAnError ==
  /\ BodyDone("mientras")
  /\ LET f == Top
         cond == LineAt(lines, f.index).cond
         cut == evaluateCondition(cond, variables) /\ ~hasError
                /\ ~(f.iterations + 1 < maxIterations)
     IN  /\ IF MientrasContinues(cond, f.iterations + 1)
            THEN /\ stack' = [stack EXCEPT ![Len(stack)] =
                                [f EXCEPT !.j = f.index + 1, !.iterations = @ + 1,
                                          !.passes = @ + 1]]
                 /\ UNCHANGED loops
            ELSE /\ stack' = Return(f.ret)
                 /\ loops' = Append(loops, [kind |-> "mientras", index |-> f.index,
                                            passes |-> f.passes, halted |-> hasError,
                                            evals |-> f.iterations + 2,
                                            still |-> evaluateCondition(cond, variables)])
         /\ errors' = IF cut THEN Append(errors, UndefinedError(<<>>)) ELSE errors
         /\ hasError' = (hasError \/ cut)
  /\ UNCHANGED <<retired, returned, host, parked, stopped>>
  /\ UNCHANGED <<code, pc, lines, inputCallback, variables, output, flowchart,
                 nodeCounter, result, sink, prompts, executed, answers>>

\* a while handler that emits its decision node again at every pass
MientrasIterate_NodePerPass ==
  /\ BodyDone("mientras")
  /\ LET f == Top
         cond == LineAt(lines, f.index).cond
     IN  IF MientrasContinues(cond, f.iterations + 1)
         THEN /\ stack' = [stack EXCEPT ![Len(stack)] =
                             [f EXCEPT !.j = f.index + 1, !.iterations = @ + 1,
                                       !.passes = @ + 1]]
              /\ flowchart' = AddNode(flowchart, nodeCounter, "decision", "Mientras")
              /\ nodeCounter' = nodeCounter + 1
              /\ UNCHANGED loops
         ELSE /\ stack' = Return(f.ret)
              /\ loops' = Append(loops, [kind |-> "mientras", index |-> f.index,
                                         passes |-> f.passes, halted |-> hasError,
                                         evals |-> f.iterations + 2,
                                         still |-> evaluateCondition(cond, variables)])
              /\ UNCHANGED <<flowchart, nodeCounter>>
  /\ UNCHANGED <<retired, returned, host, parked, stopped>>
  /\ UNCHANGED <<code, pc, lines, inputCallback, variables, output, errors,
                 hasError, result, sink, prompts, executed, answers>>

\* the end of a pass of a while body: iterations++ and the loop guard again
MientrasIterate ==
  /\ BodyDone("mientras")
  /\ LET f == Top
         cond == LineAt(lines, f.index).cond
     IN  IF MientrasContinues(cond, f.iterations + 1)
         THEN /\ stack' = [stack EXCEPT ![Len(stack)] =
                             [f EXCEPT !.j = f.index + 1, !.iterations = @ + 1,
                                       !.passes = @ + 1]]
              /\ UNCHANGED loops
         ELSE /\ stack' = Return(f.ret)
              /\ loops' = Append(loops, [kind |-> "mientras", index |-> f.index,
                                         passes |-> f.passes, halted |-> hasError,
                                         evals |-> f.iterations + 2,
                                         still |-> evaluateCondition(cond, variables)])
  /\ UNCHANGED <<retired, returned, host, parked, stopped>>
  /\ UNCHANGED <<code, pc, lines, inputCallback, variables, output, errors, flowchart,
                 nodeCounter, hasError, result, sink, prompts, executed, answers>>

\* a for loop with step 0 never leaves its loop (v += 0); the model follows
\* this many of its passes
MaxPasses == 4

\* a for guard that excludes the end bound
ParaContinues_Exclusive(v, end) == v < end /\ ~hasError

\* the guard of the for handler's loop
ParaContinues(v, end) == v <= end /\ ~hasError

\* a for loop that keeps the type and display name of a control variable that
\* was already bound
ParaBind_KeepsBinding(name, v) ==
  IF MapHas(variables, toLowerCase(name))
  THEN SetValue(variables, toLowerCase(name), NumV(v))
  ELSE MapSet(variables, Variable(name, S_entero, NumV(v)))

\* this.variables.set(varName.toLowerCase(), {name, type: 'entero', value: v})
ParaBind(name, v) == MapSet(variables, Variable(name, S_entero, NumV(v)))

\* the for handler up to the start of its first pass
ExecPara ==
  /\ CanDispatch("para")
  /\ executed' = Append(executed, Top.j)
  /\ flowchart' = AddNode(flowchart, nodeCounter, "decision", "Para")
  /\ nodeCounter' = nodeCounter + 1
  /\ LET index == Top.j
         endIndex == ParaEnd(lines, index)
     IN  IF ParaContinues(Cur.from, Cur.to)
         THEN /\ variables' = ParaBind(Cur.name, Cur.from)
              /\ sink' = Append(sink, variables')
              /\ stack' = Append(stack, [Frame("para", index, index + 1, endIndex - 1,
                                               endIndex)
                                           EXCEPT !.v = Cur.from, !.passes = 1])
              /\ UNCHANGED loops
         ELSE /\ stack' = Advance(endIndex)
              /\ loops' = Append(loops, [kind |-> "para", index |-> index, passes |-> 0,
                                         halted |-> hasError])
              /\ UNCHANGED <<variables, sink>>
  /\ UNCHANGED <<retired, returned, host, parked, stopped>>
  /\ UNCHANGED <<code, pc, lines, inputCallback, output, errors, hasError, result, prompts, answers>>

\* the end of a pass of a for body: v += step and the loop guard again
ParaIterate ==
  /\ BodyDone("para")
  /\ LineAt(lines, Top.index).step = 0 => Top.passes < MaxPasses
  /\ LET f == Top
         l == LineAt(lines, f.index)
         v == f.v + l.step
     IN  IF ParaContinues(v, l.to)
         THEN /\ variables' = ParaBind(l.name, v)
              /\ sink' = Append(sink, variables')
              /\ stack' = [stack EXCEPT ![Len(stack)] =
                             [f EXCEPT !.j = f.index + 1, !.v = v, !.passes = @ + 1]]
              /\ UNCHANGED loops
         ELSE /\ stack' = Return(f.ret)
              /\ loops' = Append(loops, [kind |-> "para", index |-> f.index,
                                         passes |-> f.passes, halted |-> hasError])
              /\ UNCHANGED <<variables, sink>>
  /\ UNCHANGED <<retired, returned, host, parked, stopped>>
  /\ UNCHANGED <<code, pc, lines, inputCallback, output, errors, flowchart, nodeCounter,
                 hasError, result, prompts, executed, answers>>

\* the switch handler up to the start of the body it selected
ExecSegun ==
  /\ CanDispatch("segun")
  /\ executed' = Append(executed, Top.j)
  /\ LET index == Top.j
         key == toLowerCase(Cur.name)
     IN  IF ~MapHas(variables, key)
         THEN /\ errors' = Append(errors, UndefinedError(Cur.name))
              /\ hasError' = TRUE
              /\ stack' = Advance(index + 1)
              /\ UNCHANGED <<flowchart, nodeCounter>>
         ELSE LET varValue == MapGet(variables, key).value
                  st == SegunScan(lines, SegunStart(index))
                  m == FirstMatch(st.cases, varValue)
                  fc == AddNode(flowchart, nodeCounter, "decision", "Segun")
              IN  /\ UNCHANGED <<errors, hasError>>
                  /\ IF m > 0
                     THEN /\ flowchart' = AddNode(fc, nodeCounter + 1, "process", "Caso")
                          /\ nodeCounter' = nodeCounter + 2
                          /\ stack' = Append(stack, Frame("segun", index, st.cases[m].startLine,
                                                          st.cases[m].endLine, st.endIndex))
                     ELSE IF st.defaultCase.present /\ st.defaultCase.endLine # -1
                     THEN /\ flowchart' = AddNode(fc, nodeCounter + 1, "process", "De Otro Modo")
                          /\ nodeCounter' = nodeCounter + 2
                          /\ stack' = Append(stack, Frame("segun", index,
                                                          st.defaultCase.startLine,
                                                          st.defaultCase.endLine, st.endIndex))
                     ELSE /\ flowchart' = fc
                          /\ nodeCounter' = nodeCounter + 1
                          /\ stack' = Advance(st.endIndex)
  /\ UNCHANGED <<retired, returned, host, parked, stopped>>
  /\ UNCHANGED <<code, pc, lines, inputCallback, variables, output, result, sink, prompts, loops, answers>>

\* a "then" range that runs on to the finsi
ThenLimit_IgnoresSino(sc) == sc.endIndex - 1

\* execEnd of the if handler: where the "then" range ends
ThenLimit(sc) == IF sc.sinoIndex > 0 THEN sc.sinoIndex ELSE sc.endIndex - 1

\* the if handler up to the start of the branch it selected
ExecSi ==
  /\ CanDispatch("si")
  /\ executed' = Append(executed, Top.j)
  /\ flowchart' = AddNode(flowchart, nodeCounter, "decision", "Si")
  /\ nodeCounter' = nodeCounter + 1
  /\ LET index == Top.j
         conditionResult == evaluateCondition(Cur.cond, variables)
         sc == SiScan(lines, index + 1, 1, -1)
     IN  IF conditionResult
         THEN stack' = Append(stack, Frame("si", index, index + 1, ThenLimit(sc),
                                           sc.endIndex))
         ELSE IF sc.sinoIndex > 0
         THEN stack' = Append(stack, Frame("si", index,
                                           IF LineAt(lines, sc.sinoIndex).kw = "sinosi"
                                           THEN sc.sinoIndex ELSE sc.sinoIndex + 1,
                                           sc.endIndex - 1, sc.endIndex))
         ELSE stack' = Advance(sc.endIndex)
  /\ UNCHANGED <<retired, returned, host, parked, stopped>>
  /\ UNCHANGED <<code, pc, lines, inputCallback, variables, output, errors, hasError, result,
                 sink, prompts, loops, answers>>

\* the else-if handler up to the start of its body, or its return
ExecSinoSi ==
  /\ CanDispatch("sinosi")
  /\ executed' = Append(executed, Top.j)
  /\ flowchart' = AddNode(flowchart, nodeCounter, "decision", "SiNo Si")
  /\ nodeCounter' = nodeCounter + 1
  /\ LET index == Top.j
         conditionResult == evaluateCondition(Cur.cond, variables)
         sinoIndex == SinoSiScan(lines, index + 1, 1)
         finsiIndex == FinSiScan(lines, index + 1, 1)
     IN  IF conditionResult
         THEN stack' = Append(stack, Frame("sinosi", index, index + 1,
                                           IF sinoIndex > 0 THEN sinoIndex ELSE finsiIndex - 1,
                                           finsiIndex))
         ELSE IF sinoIndex > 0
         THEN stack' = Advance(sinoIndex)
         ELSE stack' = Advance(finsiIndex)
  /\ UNCHANGED <<retired, returned, host, parked, stopped>>
  /\ UNCHANGED <<code, pc, lines, inputCallback, variables, output, errors, hasError, result,
                 sink, prompts, loops, answers>>

\* the body loop of a switch, if or else-if handler ended: the handler returns
BlockReturn ==
  /\ \E kind \in {"segun", "si", "sinosi"} : BodyDone(kind)
  /\ stack' = Return(Top.ret)
  /\ UNCHANGED <<retired, returned, host, parked, stopped>>
  /\ UNCHANGED <<code, pc, lines, inputCallback, variables, output, errors, flowchart,
                 nodeCounter, hasError, result, sink, prompts, executed, loops, answers>>

(***************************************************************************)
(* The programs and input strings the interpreter is run on                *)
(***************************************************************************)
N_x == <<"x">>
N_i == <<"i">>
N_c == <<"c">>
N_zz == <<"z", "z">>
N_ww == <<"w", "w">>
N_arr == <<"a", "r", "r">>
N_edad == <<"e", "d", "a", "d">>
T_Entero == <<"E", "n", "t", "e", "r", "o">>
T_Cadena == <<"C", "a", "d", "e", "n", "a">>
S_digite == <<"D", "i", "g", "i", "t", "e", " ", "s", "u", " ", "e", "d", "a", "d">>
S_mayor ==
  <<"U", "s", "t", "e", "d", " ", "e", "s", " ", "m", "a", "y", "o", "r">>
  \o <<" ", "d", "e", " ", "e", "d", "a", "d">>
S_menor ==
  <<"U", "s", "t", "e", "d", " ", "e", "s", " ", "m", "e", "n", "o", "r">>
  \o <<" ", "d", "e", " ", "e", "d", "a", "d">>

\* defaultCode
DefaultCode ==
  <<Algoritmo,
    Definir(N_edad, T_Entero),
    Escribir(<<Lit(S_digite)>>),
    Leer(<<N_edad>>),
    Blank,
    Si(E_Bin(">", E_Var(N_edad), E_Num(18))),
    Escribir(<<Lit(S_mayor)>>),
    SiNo,
    Escribir(<<Lit(S_menor)>>),
    FinSi,
    FinAlgoritmo>>

\* Algoritmo t / Definir x Como Entero; / Escribir "v=", x; / FinAlgoritmo
RoundTripCode ==
  <<Algoritmo,
    Definir(N_x, T_Entero),
    Escribir(<<Lit(<<"v", "=">>), Ref(E_Var(N_x))>>),
    FinAlgoritmo>>

Say(c) == Escribir(<<Lit(<<c>>)>>)

XPlus1 == Asignar(N_x, <<Ref(E_Bin("+", E_Var(N_x), E_Num(1)))>>)

\* statements that reference an identifier no statement declares
UndeclaredUses ==
  { Asignar(N_zz, <<Ref(E_Num(1))>>),
    AsignarElemento(N_zz, E_Num(0), <<Ref(E_Num(1))>>),
    Leer(<<N_zz>>),
    Leer(<<N_x, N_zz>>),
    Leer(<<N_x, N_zz, N_x>>),
    Escribir(<<Lit(<<"v">>), Ref(E_Var(N_zz))>>),
    Escribir(<<Lit(<<"v">>), Ref(E_Var(N_zz)), Ref(E_Var(N_ww))>>),
    Escribir(<<Ref(E_Var(N_zz))>>),
    Asignar(N_x, <<Ref(E_Bin("+", E_Var(N_zz), E_Num(1)))>>),
    Asignar(N_x, <<Lit(<<"a">>), Ref(E_Var(N_zz))>>),
    AsignarElemento(N_arr, E_Num(0), <<Lit(<<"a">>), Ref(E_Var(N_zz))>>) }

Prologue ==
  <<Algoritmo, Comment, Definir(N_x, T_Entero), Dimension(N_arr, 2), Say("a")>>

Epilogue == <<Say("z"), XPlus1, Leer(<<N_x>>), FinAlgoritmo>>

\* the statement u after one statement and before another, inside a block
Wrapped(w, u) ==
  LET body == <<Say("b"), u, Say("c"), XPlus1>>
      x0 == E_Bin("=", E_Var(N_x), E_Num(0))
      x1 == E_Bin(">", E_Var(N_x), E_Num(0))
  IN  CASE w = "none" -> body
        [] w = "mientras" ->
             <<Mientras(E_Bin("<", E_Var(N_x), E_Num(2)))>> \o body \o <<FinMientras>>
        [] w = "para" -> <<Para(N_i, 1, 2)>> \o body \o <<FinPara>>
        [] w = "si" -> <<Si(x0)>> \o body \o <<SiNo, Say("d"), FinSi>>
        [] w = "sino" -> <<Si(x1), Say("d"), SiNo>> \o body \o <<FinSi>>
        [] w = "sinosi" ->
             <<Si(x1), Say("d"), SiNoSi(x0)>> \o body \o <<SiNo, Say("e"), FinSi>>
        [] w = "segun" ->
             <<Segun(N_x), Caso(<<<<"0">>>>)>> \o body
             \o <<Caso(<<<<"1">>>>), Say("d"), DeOtroModo, Say("e"), FinSegun>>
        [] w = "deotromodo" ->
             <<Segun(N_x), Caso(<<<<"1">>>>), Say("d"), DeOtroModo>> \o body \o <<FinSegun>>
        [] w = "nested" ->
             <<Mientras(E_Bool(TRUE)), Para(N_i, 1, 2), Si(x0), Segun(N_x),
               Caso(<<<<"0">>>>)>> \o body
             \o <<FinSegun, SiNo, Say("d"), FinSi, Say("e"), FinPara, Say("f"), FinMientras>>

Wrappers ==
  {"none", "mientras", "para", "si", "sino", "sinosi", "segun", "deotromodo", "nested"}

ErrorPrograms ==
  { Prologue \o Wrapped(w, u) \o Epilogue : w \in Wrappers, u \in UndeclaredUses }
  \cup { Prologue \o <<Segun(N_zz), Caso(<<<<"0">>>>), Say("b"), FinSegun>> \o Epilogue }

MaxCount == 2
MaxLit == 3
MaxStep == 3
MaxLinks == 3

\* while loops: a condition that stays true, one that turns false after n
\* passes (n small, or one below, at and one above the cap), one that cannot
\* be evaluated, and a dispatch repeated by an outer loop
WhileShapes ==
  { [family |-> "mientras", cond |-> c, body |-> b] :
      c \in { E_Bool(TRUE), E_Bin(">=", E_Var(N_x), E_Num(0)),
              E_Bin(">", E_Var(N_zz), E_Num(0)) }
          \cup { E_Bin("<", E_Var(N_x), E_Num(n)) :
                   n \in 0..MaxCount \cup (maxIterations - 1)..(maxIterations + 1) },
      b \in { "count", "reset" } }

WhileCode(d) ==
  <<Definir(N_x, T_Entero), Mientras(d.cond), Say("p"),
    IF d.body = "count" THEN XPlus1 ELSE Asignar(N_x, <<Ref(E_Num(0))>>),
    FinMientras, Say("z")>>

NestedWhileCode ==
  <<Definir(N_x, T_Entero), Mientras(E_Bin("<", E_Var(N_x), E_Num(2))),
    Mientras(E_Bool(TRUE)), Say("p"), FinMientras, XPlus1, FinMientras, Say("z")>>

\* for loops over literal bounds, with and without "con paso"
ParaShapes ==
  { [family |-> "para", from |-> a, to |-> b, step |-> st, paso |-> ps, body |-> bd] :
      a \in 0..MaxLit, b \in 0..MaxLit, st \in 1..MaxStep, ps \in BOOLEAN,
      bd \in {"say", "assign"} }

ParaCode(d) ==
  <<Definir(N_x, T_Entero),
    IF d.paso THEN ParaConPaso(N_i, d.from, d.to, d.step) ELSE Para(N_i, d.from, d.to),
    Say("p")>>
  \o (IF d.body = "assign" THEN <<Asignar(N_i, <<Ref(E_Num(0))>>)>> ELSE <<>>)
  \o <<FinPara, Say("z")>>

\* switches: the groups of the body in source order; a group is a case with a
\* value list or the default, with the line its body writes
G(values, tag) == [default |-> FALSE, values |-> values, tag |-> tag]
D(tag) == [default |-> TRUE, values |-> <<>>, tag |-> tag]

V1 == <<"1">>
V2 == <<"2">>
V3 == <<"3">>

SegunLayouts ==
  { <<G(<<V1>>, "p"), G(<<V2, V3>>, "q"), D("r")>>,
    <<G(<<V1>>, "p"), G(<<V2>>, "q")>>,
    <<G(<<V1, V2>>, "p"), G(<<V2, V1>>, "q"), G(<<V3>>, "s"), D("r")>>,
    <<G(<<<<"\"", "a", "\"">>>>, "p"), G(<<<<"B">>, <<"'", "a", "'">>>>, "q"), D("r")>>,
    <<G(<<<<"1", "0">>>>, "p"), G(<<<<"\"", "1", "8", "\"">>>>, "q"), D("r")>>,
    <<D("r")>> }

\* the same, with the default group before or between the case groups
SegunLayoutsDefaultEarly ==
  { <<D("r"), G(<<V1>>, "p"), G(<<V2>>, "q")>>,
    <<G(<<V1>>, "p"), D("r"), G(<<V2>>, "q")>> }

SegunShapes ==
  { [family |-> "segun", type |-> t, groups |-> g, rebind |-> rb] :
      t \in {T_Entero, T_Cadena}, g \in SegunLayouts \cup SegunLayoutsDefaultEarly,
      rb \in BOOLEAN }

RECURSIVE GroupLines(_, _)
GroupLines(groups, rebind) ==
  IF Len(groups) = 0 THEN <<>>
  ELSE LET g == groups[1]
       IN  <<IF g.default THEN DeOtroModo ELSE Caso(g.values), Say(g.tag)>>
           \o (IF rebind THEN <<Asignar(N_c, <<Ref(E_Num(2))>>)>> ELSE <<>>)
           \o GroupLines(Tail(groups), rebind)

\* Definir c / Leer c / Segun c Hacer ... FinSegun; with rebind every body
\* also assigns 2 to the switch variable
SegunCode(d) ==
  <<Definir(N_c, d.type), Leer(<<N_c>>), Segun(N_c)>>
  \o GroupLines(d.groups, d.rebind) \o <<FinSegun, Say("z")>>

\* if chains: the truth value of each condition in source order (the first is
\* the si, the others are sino si links), and whether a final sino is present
ChainShapes ==
  { [family |-> "si", conds |-> cs, sino |-> e] :
      cs \in UNION { [1..n -> BOOLEAN] : n \in 1..(MaxLinks + 1) }, e \in BOOLEAN }

\* a condition with the given truth value when x is 0
CondOf(b, i) ==
  IF i % 2 = 0 THEN E_Bool(b)
  ELSE IF b THEN E_Bin("=", E_Var(N_x), E_Num(0)) ELSE E_Bin(">", E_Var(N_x), E_Num(0))

RECURSIVE LinkLines(_, _)
LinkLines(conds, i) ==
  IF i > Len(conds) THEN <<>>
  ELSE <<IF i = 1 THEN Si(CondOf(conds[i], i)) ELSE SiNoSi(CondOf(conds[i], i)),
         Say(Digits[i + 1])>>
       \o LinkLines(conds, i + 1)

ChainLines(d) ==
  LinkLines(d.conds, 1) \o (IF d.sino THEN <<SiNo, Say("e")>> ELSE <<>>) \o <<FinSi>>

ChainCode(d) == <<Definir(N_x, T_Entero)>> \o ChainLines(d) \o <<Say("z")>>

\* an if chain nested in the body of the k-th branch of another
NestedChainShapes ==
  { [family |-> "si2", outer |-> o, inner |-> n, at |-> k] :
      o \in { d \in ChainShapes : Len(d.conds) = 2 },
      n \in { d \in ChainShapes : Len(d.conds) = 2 },
      k \in 1..3 }

NestedChainCode(d) ==
  LET in == <<Say("[")>> \o ChainLines(d.inner) \o <<Say("]")>>
      o == d.outer
  IN  <<Definir(N_x, T_Entero), Si(CondOf(o.conds[1], 1))>>
      \o (IF d.at = 1 THEN in ELSE <<Say("1")>>)
      \o <<SiNoSi(CondOf(o.conds[2], 2))>>
      \o (IF d.at = 2 THEN in ELSE <<Say("2")>>)
      \o (IF o.sino THEN <<SiNo>> \o (IF d.at = 3 THEN in ELSE <<Say("e")>>) ELSE <<>>)
      \o <<FinSi, Say("z")>>

T_Real == <<"R", "E", "A", "L">>
T_Caracter == <<"C", "a", "r", "a", "c", "t", "e", "r">>
T_Logico == <<"L", "o", "g", "i", "c", "o">>
T_cadena == <<"c", "a", "d", "e", "n", "a">>
N_X == <<"X">>

ScalarTypes == {T_Entero, T_Real, T_Caracter, T_cadena, T_Logico}

\* declarations: a name declared, optionally bound to another value by an
\* assignment or an input, then declared again (its name in the other letter
\* case) and written
DefinirShapes ==
  { [family |-> "definir", first |-> a, second |-> b, between |-> bt] :
      a \in ScalarTypes, b \in ScalarTypes, bt \in {"none", "asignar", "leer"} }

DefinirCode(d) ==
  <<Definir(N_x, d.first)>>
  \o (CASE d.between = "none" -> <<>>
        [] d.between = "asignar" -> <<Asignar(N_x, <<Ref(E_Num(2))>>)>>
        [] d.between = "leer" -> <<Leer(<<N_x>>)>>)
  \o <<Definir(N_X, d.second), Escribir(<<Lit(<<"v", "=">>), Ref(E_Var(N_x))>>)>>

\* arrays: Dimension arr[size], then one element assignment whose index is a
\* literal, or the variable x holding -1, then a line written
ArrayShapes ==
  { [family |-> "arreglo", size |-> n, index |-> k] :
      n \in 0..MaxLit, k \in (0 - 1)..(MaxLit + 1) }

ArrayCode(d) ==
  <<Definir(N_x, T_Entero),
    Asignar(N_x, <<Ref(E_Bin("-", E_Num(0), E_Num(1)))>>),
    Dimension(N_arr, d.size),
    AsignarElemento(N_arr, IF d.index < 0 THEN E_Var(N_x) ELSE E_Num(d.index),
                    <<Ref(E_Num(7))>>),
    Say("c")>>

\* inputs: c of every scalar type and x, both bound to other values, then read
\* by one input statement and written
LeerShapes == { [family |-> "leer", type |-> t] : t \in ScalarTypes }

LeerCode(d) ==
  <<Definir(N_x, T_Entero), Definir(N_c, d.type),
    Asignar(N_x, <<Ref(E_Num(2))>>), Asignar(N_c, <<Ref(E_Num(7))>>),
    Leer(<<N_c, N_x>>),
    Escribir(<<Lit(<<"v", "=">>), Ref(E_Var(N_c))>>),
    Escribir(<<Lit(<<"v", "=">>), Ref(E_Var(N_x))>>)>>

\* letter case: x and c declared, x written (by an assignment or an input)
\* under the spelling X, redeclared or dimensioned under the spelling X, then
\* read under the spelling x
CaseShapes ==
  { [family |-> "case", use |-> u, redef |-> r] :
      u \in {"asignar", "leer"}, r \in {"definir", "dimension"} }

CaseCode(d) ==
  <<Definir(N_x, T_Entero), Definir(N_c, T_Cadena),
    IF d.use = "asignar" THEN Asignar(N_X, <<Ref(E_Num(2))>>) ELSE Leer(<<N_X>>),
    Escribir(<<Lit(<<"v", "=">>), Ref(E_Var(N_X))>>),
    IF d.redef = "definir" THEN Definir(N_X, T_Cadena) ELSE Dimension(N_X, 2),
    Escribir(<<Lit(<<"v", "=">>), Ref(E_Var(N_x))>>)>>

\* an if or else-if head whose condition names the undeclared zz, with and
\* without an else branch, then an assignment whose right-hand side names zz
UnevaluableShapes ==
  { [family |-> "unevaluable", head |-> h, sino |-> e] :
      h \in {"si", "sinosi"}, e \in BOOLEAN }

UnevaluableCode(d) ==
  LET zz0 == E_Bin(">", E_Var(N_zz), E_Num(0))
  IN  <<Definir(N_x, T_Entero)>>
      \o (IF d.head = "si" THEN <<Si(zz0)>>
          ELSE <<Si(E_Bin(">", E_Var(N_x), E_Num(0))), Say("d"), SiNoSi(zz0)>>)
      \o <<Say("p")>>
      \o (IF d.sino THEN <<SiNo, Say("e")>> ELSE <<>>)
      \o <<FinSi, Asignar(N_x, <<Ref(E_Bin("+", E_Var(N_zz), E_Num(1)))>>),
           Escribir(<<Lit(<<"v", "=">>), Ref(E_Var(N_x))>>), Say("z")>>

\* a for loop whose control variable is already bound, as a string and under
\* another spelling, running two passes or none; the body assigns the control
\* variable
PreboundParaShapes == { [family |-> "prebound", to |-> b] : b \in {0, 2} }

PreboundParaCode(d) ==
  <<Definir(N_X, T_Cadena), Definir(N_c, T_Cadena), Para(N_x, 1, d.to), Say("p"),
    Asignar(N_x, <<Ref(E_Num(0))>>), FinPara,
    Escribir(<<Lit(<<"v", "=">>), Ref(E_Var(N_x))>>)>>

\* the keywords the dispatcher tests before it comes to the assignment
StatementKeywords ==
  {"algoritmo", "proceso", "definir", "dimension", "leer", "escribir", "mientras", "para",
   "segun", "si"}

\* a variable whose name begins with the letters of a keyword is declared,
\* assigned 2 and written
KeywordNameCode(kw) ==
  <<Definir(PrefixedName(kw), T_Entero), Asignar(PrefixedName(kw), <<Ref(E_Num(2))>>),
    Escribir(<<Lit(<<"v", "=">>), Ref(E_Var(PrefixedName(kw)))>>)>>

\* blocks with no terminator: x declared, the opener (for "sino" and "sinosi"
\* an if whose condition is false, its then line and the branch line), then
\* "p" written, x incremented and "q" written on the last line of the program
OpenFamilies == {"mientras", "para", "si", "sino", "sinosi", "segun"}

OpenCode(fam) ==
  LET x0 == E_Bin("=", E_Var(N_x), E_Num(0))
      x1 == E_Bin(">", E_Var(N_x), E_Num(0))
  IN  <<Definir(N_x, T_Entero)>>
      \o (CASE fam = "mientras" -> <<Mientras(E_Bin("<", E_Var(N_x), E_Num(1)))>>
            [] fam = "para" -> <<Para(N_i, 1, 1)>>
            [] fam = "si" -> <<Si(x0)>>
            [] fam = "sino" -> <<Si(x1), Say("d"), SiNo>>
            [] fam = "sinosi" -> <<Si(x1), Say("d"), SiNoSi(x0)>>
            [] fam = "segun" -> <<Segun(N_x), Caso(<<<<"0">>>>)>>)
      \o <<Say("p"), XPlus1, Say("q")>>

\* element w of a two-element array is assigned 7, then x is assigned element r
\* and written
ReadBackCode(w, r) ==
  <<Definir(N_x, T_Entero), Dimension(N_arr, 2),
    AsignarElemento(N_arr, E_Num(w), <<Ref(E_Num(7))>>),
    Asignar(N_x, <<Ref(E_At(N_arr, E_Num(r)))>>),
    Escribir(<<Lit(<<"v", "=">>), Ref(E_Var(N_x))>>)>>

\* a program whose last line assigns the undeclared zz
LastLineFailsCode ==
  <<Definir(N_x, T_Entero), Say("a"), Asignar(N_zz, <<Ref(E_Num(1))>>)>>

\* lines that start with a statement keyword but do not match the statement's
\* regular expression ("Definir x", "Leer", "Mientras x < 3", ...), and contain
\* neither "<-" nor "="
Malformed(kw) == [NoLine EXCEPT !.kw = kw, !.name = N_x, !.names = <<N_x>>]

UnmatchedLines ==
  { NoLine, SiNo, FinSi, FinMientras, FinPara, FinSegun, DeOtroModo, Caso(<<V1>>) }
  \cup { Malformed(kw) : kw \in {"definir", "dimension", "leer", "escribir", "mientras",
                                 "para", "segun", "si", "sinosi"} }

\* x declared and bound to 2, "a" written, the unmatched line, "b" written
SkipCode(u) ==
  <<Definir(N_x, T_Entero), Asignar(N_x, <<Ref(E_Num(2))>>), Say("a"), u, Say("b")>>

\* one statement of every kind that writes the store: x, c and arr declared,
\* x declared again, an element assignment to x (which holds no array), an
\* element assignment to arr, a scalar assignment, an input of two identifiers
SinkCode ==
  <<Definir(N_x, T_Entero), Definir(N_c, T_Cadena), Dimension(N_arr, 2),
    Definir(N_X, T_Logico),
    AsignarElemento(N_x, E_Num(0), <<Ref(E_Num(1))>>),
    AsignarElemento(N_arr, E_Num(1), <<Ref(E_Num(5))>>),
    Asignar(N_c, <<Ref(E_Num(3))>>),
    Leer(<<N_c, N_x>>),
    Say("z")>>

BlockFamilies == {"mientras", "para", "segun", "si"}

\* a block of each family whose body assigns a declared variable whose name
\* begins with the family's keyword; "p" is written in the body, "z" after it
PrefixBodyCode(fam) ==
  LET n == PrefixedName(fam)
      x0 == E_Bin("=", E_Var(N_x), E_Num(0))
  IN  <<Definir(N_x, T_Entero), Definir(n, T_Entero)>>
      \o (CASE fam = "mientras" -> <<Mientras(E_Bin("<", E_Var(N_x), E_Num(1)))>>
            [] fam = "para" -> <<Para(N_i, 1, 2)>>
            [] fam = "segun" -> <<Segun(N_x), Caso(<<<<"0">>>>)>>
            [] fam = "si" -> <<Si(x0)>>)
      \o <<Say("p"), Asignar(n, <<Ref(E_Num(1))>>), XPlus1>>
      \o (CASE fam = "mientras" -> <<FinMientras>>
            [] fam = "para" -> <<FinPara>>
            [] fam = "segun" -> <<FinSegun>>
            [] fam = "si" -> <<FinSi>>)
      \o <<Say("z")>>

\* programs in which a statement throws, at the top level and inside blocks
ThrowPrograms ==
  { Prologue \o Wrapped(w, DimensionTooLong(N_arr)) \o Epilogue : w \in Wrappers }

\* the empty source text, and one of blank and comment lines only
EmptyCode == <<>>

OnlyComments == <<Comment, Blank, Comment>>

Programs ==
  {DefaultCode, RoundTripCode, NestedWhileCode, SinkCode, EmptyCode, OnlyComments}
  \cup ThrowPrograms
  \cup ErrorPrograms
  \cup { WhileCode(d) : d \in WhileShapes }
  \cup { ParaCode(d) : d \in ParaShapes }
  \cup { SegunCode(d) : d \in SegunShapes }
  \cup { ChainCode(d) : d \in ChainShapes }
  \cup { NestedChainCode(d) : d \in NestedChainShapes }
  \cup { DefinirCode(d) : d \in DefinirShapes }
  \cup { ArrayCode(d) : d \in ArrayShapes }
  \cup { LeerCode(d) : d \in LeerShapes }
  \cup { SkipCode(u) : u \in UnmatchedLines }
  \cup { PrefixBodyCode(fam) : fam \in BlockFamilies }
  \cup { CaseCode(d) : d \in CaseShapes }
  \cup { UnevaluableCode(d) : d \in UnevaluableShapes }
  \cup { PreboundParaCode(d) : d \in PreboundParaShapes }
  \cup { KeywordNameCode(kw) : kw \in StatementKeywords }
  \cup { OpenCode(fam) : fam \in OpenFamilies }
  \cup { LastLineFailsCode }
  \cup { ReadBackCode(w, r) : w, r \in 0..1 }

\* the strings the input provider resolves a request with
InputValues ==
  { <<"2", "0">>, <<"1", "0">>, <<"1", "8">>, <<"1">>, <<"2">>, <<"3">>, <<"A">>, <<"b">> }

Next ==
  \/ SetInputCallback
  \/ \E source \in Programs : Execute(source)
  \/ ExecSkip
  \/ ExecDefinir
  \/ ExecDimension
  \/ ExecLeer
  \/ \E value \in InputValues : InputResolve(value)
  \/ ExecEscribir
  \/ ExecMientras
  \/ MientrasIterate
  \/ ExecPara
  \/ ParaIterate
  \/ ExecSegun
  \/ ExecSi
  \/ ExecSinoSi
  \/ BlockReturn
  \/ ExecAsignar
  \/ Finish

Spec == Init /\ [][Next]_vars

(***************************************************************************)
(* The IDE component that runs the interpreter                             *)
(***************************************************************************)
core == <<code, pc, lines, inputCallback, variables, output, errors, flowchart,
          nodeCounter, hasError, stack, result, sink, prompts, answers, executed,
          loops, retired, returned>>

\* a user event is handled only when no interpreter code and no continuation of
\* runCode is left to run: the interpreter suspends nowhere but in the provider
Quiescent == pc \in {"idle", "awaiting"} \/ (pc = "done" /\ host.delivered = host.run)

\* what the run of the interpreter in interpreterRef has done
Observed ==
  [run |-> host.run, pc |-> pc, output |-> output, sink |-> sink, answers |-> answers,
   result |-> result]

\* runCode up to the first suspension of execute: a new interpreter with
\* handleInput as its provider. The run button is disabled, and F5 ignored, while
\* isRunning. A suspended interpreter that interpreterRef no longer names is
\* parked.
RunCode(source) ==
  /\ ~host.isRunning
  /\ Quiescent
  /\ host.run < MaxRuns
  /\ host' = [host EXCEPT !.isRunning = TRUE, !.output = <<>>, !.errors = <<>>,
                          !.flowchart = <<>>, !.run = @ + 1]
  /\ parked' = IF pc = "awaiting" THEN Append(parked, Observed) ELSE parked
  /\ inputCallback' = TRUE
  /\ Start(source)
  /\ retired' = <<[output |-> <<>>, errors |-> <<>>, flowchart |-> <<>>]>>
  /\ returned' = <<>>
  /\ UNCHANGED stopped

\* the continuation of runCode after execute returned
Deliver ==
  /\ pc = "done"
  /\ host.run # 0
  /\ host.delivered # host.run
  /\ host' = [host EXCEPT !.output = result.output, !.errors = result.errors,
                          !.flowchart = result.flowchart, !.isRunning = FALSE,
                          !.delivered = host.run]
  /\ UNCHANGED <<core, parked, stopped>>

\* the continuation of a parked run is run: its request was resolved with value
ResumeParked(ps, r, value) ==
  [i \in DOMAIN ps |->
     IF ps[i].run = r
     THEN [ps[i] EXCEPT !.pc = "running", !.answers = Append(@, value)]
     ELSE ps[i]]

\* handleInputSubmit: the form of the input modal, shown while inputModalOpen
HandleInputSubmit(value) ==
  /\ host.inputModalOpen
  /\ Quiescent
  /\ LET h == [host EXCEPT !.inputModalOpen = FALSE, !.inputResolverRef = 0]
     IN  CASE host.inputResolverRef = 0 ->
                /\ host' = h
                /\ UNCHANGED <<core, parked>>
           [] host.inputResolverRef = host.run /\ host.run # 0 ->
                /\ Resume(value)
                /\ host' = Requested(h, pc')
                /\ UNCHANGED parked
           [] OTHER ->
                /\ host' = h
                /\ parked' = ResumeParked(parked, host.inputResolverRef, value)
                /\ UNCHANGED core
  /\ UNCHANGED stopped

\* a stop that only clears the running flag
stopExecution_OnlyClearsFlag(h) == [h EXCEPT !.isRunning = FALSE]

\* stopExecution on the component's state
stopExecution(h) ==
  [h EXCEPT !.isRunning = FALSE, !.inputModalOpen = FALSE, !.inputResolverRef = 0]

\* the stop button, enabled while isRunning
StopExecution ==
  /\ host.isRunning
  /\ Quiescent
  /\ host' = stopExecution(host)
  /\ stopped' = IF pc = "awaiting" THEN Append(stopped, Observed) ELSE stopped
  /\ UNCHANGED <<core, parked>>

\* the steps of a run between its start and its return, input aside
Step ==
  \/ ExecSkip
  \/ ExecDefinir
  \/ ExecDimension
  \/ ExecLeer
  \/ ExecEscribir
  \/ ExecMientras
  \/ MientrasIterate
  \/ ExecPara
  \/ ParaIterate
  \/ ExecSegun
  \/ ExecSi
  \/ ExecSinoSi
  \/ BlockReturn
  \/ ExecAsignar
  \/ Finish

\* the programs run one after another: the default program, one that halts on an
\* undeclared identifier inside nested blocks, one that takes an else-if branch
\* and reads at its end
RunPrograms ==
  { DefaultCode,
    Prologue \o Wrapped("nested", Leer(<<N_zz>>)) \o Epilogue,
    Prologue \o Wrapped("sinosi", XPlus1) \o Epilogue }

RunInputs == { <<"2", "0">>, <<"1", "0">> }

\* several executes, one after another, on one interpreter
NextRuns ==
  \/ SetInputCallback
  \/ \E source \in RunPrograms : Execute(source)
  \/ \E source \in RunPrograms : ExecuteAgain(source)
  \/ \E value \in RunInputs : InputResolve(value)
  \/ Step

SpecRuns == Init /\ [][NextRuns]_vars

\* a for loop "Con Paso 0" over 1..2 and over 2..1, with a line in its body
ZeroStepCode(to) ==
  <<Definir(N_x, T_Entero), ParaConPaso(N_i, 1, to, 0), Say("p"), FinPara, Say("z")>>

\* programs without a switch: the default program, an else-if branch taken, a
\* while loop of two passes, and the for loops with step 0
LivePrograms ==
  { DefaultCode,
    Prologue \o Wrapped("sinosi", XPlus1) \o Epilogue,
    WhileCode([family |-> "mientras", cond |-> E_Bin("<", E_Var(N_x), E_Num(2)),
               body |-> "count"]) }
  \cup { ZeroStepCode(to) : to \in {0, 2} }

\* the steps of a run of a program without a switch
StepLive ==
  \/ ExecSkip
  \/ ExecDefinir
  \/ ExecDimension
  \/ ExecLeer
  \/ ExecEscribir
  \/ ExecMientras
  \/ MientrasIterate
  \/ ExecPara
  \/ ParaIterate
  \/ ExecSi
  \/ ExecSinoSi
  \/ BlockReturn
  \/ ExecAsignar
  \/ Finish

\* one run, whose steps are taken as long as one is possible and whose input
\* requests are all resolved in the end
NextLive ==
  \/ SetInputCallback
  \/ \E source \in LivePrograms : Execute(source)
  \/ \E value \in RunInputs : InputResolve(value)
  \/ StepLive

SpecLive ==
  /\ Init
  /\ [][NextLive]_vars
  /\ WF_vars(StepLive)
  /\ WF_vars(\E value \in RunInputs : InputResolve(value))

\* what a suspended call of execute keeps in its own frames: its lines, the
\* positions of its loops, and what it dispatched and was answered so far
Suspended ==
  [code |-> code, lines |-> lines, stack |-> stack, executed |-> executed,
   loops |-> loops, answers |-> answers]

\* execute is called while the call before it is suspended on an input request:
\* reset and the new run work on the fields of the same object
ExecuteWhileSuspended(source) ==
  /\ pc = "awaiting"
  /\ Len(retired) < MaxRuns
  /\ Start(source)
  /\ retired' = IF reset.fresh THEN Append(retired, Arrays) ELSE retired
  /\ parked' = Append(parked, Suspended)
  /\ UNCHANGED <<inputCallback, returned, host, stopped>>

\* the request of a suspended earlier call is resolved with `value` while the
\* call after it is itself suspended or has returned: the input handler of the
\* earlier call goes on after its await. existingVar is the binding it looked
\* up before the await, which reset has since cleared from the store, so the
\* coerced value is stored in no binding of the store; the notification, the
\* lookups of the later identifiers, the input node and every later statement
\* of the call work on the fields as they are now.
ResumeEarlier(value) ==
  /\ pc \in {"awaiting", "done"}
  /\ \E i \in DOMAIN parked :
       LET c == parked[i]
           top == c.stack[Len(c.stack)]
           names == LineAt(c.lines, top.index).names
           rest == [k \in 1..(Len(parked) - 1) |-> IF k < i THEN parked[k] ELSE parked[k + 1]]
       IN  /\ LeerOutcome(LeerFrom(names, top.k + 1, variables, Append(sink, variables)),
                          top.index, names, SubSeq(c.stack, 1, Len(c.stack) - 1))
           /\ code' = c.code
           /\ lines' = c.lines
           /\ executed' = c.executed
           /\ loops' = c.loops
           /\ answers' = Append(c.answers, value)
           /\ parked' = IF pc = "awaiting" THEN Append(rest, Suspended) ELSE rest
  /\ UNCHANGED <<inputCallback, output, result, retired, returned, host, stopped>>

\* the programs of the overlapping calls are those run one after another
SharedPrograms == RunPrograms

\* executes on one interpreter that may overlap: a call may start while the
\* call before it is suspended, and the suspended calls resume in any order
NextShared ==
  \/ SetInputCallback
  \/ \E source \in SharedPrograms : Execute(source)
  \/ \E source \in SharedPrograms : ExecuteAgain(source)
  \/ \E source \in SharedPrograms : ExecuteWhileSuspended(source)
  \/ \E value \in RunInputs : InputResolve(value)
  \/ \E value \in RunInputs : ResumeEarlier(value)
  \/ Step

SpecShared == Init /\ [][NextShared]_vars

\* the IDE: runs, stops and input submissions
NextHost ==
  \/ \E source \in RunPrograms : RunCode(source)
  \/ \E value \in RunInputs : HandleInputSubmit(value)
  \/ StopExecution
  \/ Deliver
  \/ Step

SpecHost == Init /\ [][NextHost]_vars

(***************************************************************************)
(* Properties                                                              *)
(***************************************************************************)
Done == pc = "done"

Kinds(fc) == [i \in DOMAIN fc |-> fc[i].type]

\* every node's children are exactly the id of the next node; the last has none
Linked(fc) ==
  \A i \in DOMAIN fc :
    fc[i].children = IF i < Len(fc) THEN <<fc[i + 1].id>> ELSE <<>>

Count(seq, x) == Cardinality({ i \in DOMAIN seq : seq[i] = x })

IsPrefix(a, b) == Len(a) <= Len(b) /\ SubSeq(b, 1, Len(a)) = a

EndsWithEnd(fc) ==
  /\ Len(fc) > 0
  /\ fc[Len(fc)].type = "end"
  /\ Count(Kinds(fc), "end") = 1

\* C1: once hasError is set, no step changes a variable binding, appends an
\* output line, issues an input request, notifies the sink, dispatches a line or
\* records an error, and the only trace change left is the closing end node
\* with the sequential edges.
HaltIsFinal ==
  [][hasError =>
       /\ hasError'
       /\ variables' = variables
       /\ output' = output
       /\ prompts' = prompts
       /\ sink' = sink
       /\ executed' = executed
       /\ errors' = errors
       /\ pc' # "awaiting"
       /\ \/ flowchart' = flowchart
          \/ /\ pc' = "done"
             /\ Len(flowchart') = Len(flowchart) + 1
             /\ flowchart'[Len(flowchart')].type = "end"
             /\ Kinds(SubSeq(flowchart', 1, Len(flowchart))) = Kinds(flowchart)]_vars

\* C1 witness: a run halted by an error four blocks deep (while, for, if,
\* switch) has returned, leaving lines of every enclosing block undispatched
HaltedInNestedBlocks ==
  /\ Done
  /\ hasError
  /\ \E u \in UndeclaredUses : code = Prologue \o Wrapped("nested", u) \o Epilogue
  /\ output = << <<"a">>, <<"b">> >>
  /\ loops = <<>> \/ \A i \in DOMAIN loops : loops[i].halted

\* the programs in which a statement referencing exactly one undeclared
\* identifier is dispatched (in every wrapper the first pass reaches it)
OneUndeclared ==
  UndeclaredUses \ { Escribir(<<Lit(<<"v">>), Ref(E_Var(N_zz)), Ref(E_Var(N_ww))>>) }

\* C2: a run that dispatches a statement referencing an undeclared identifier
\* returns with exactly one error and with no later statement executed (the
\* line written by the statement after it is absent from the output).
UndeclaredAlwaysOneError ==
  \A w \in Wrappers : \A u \in OneUndeclared :
    (Done /\ code = Prologue \o Wrapped(w, u) \o Epilogue) =>
      /\ Len(result.errors) = 1
      /\ Count(result.output, <<"c">>) = 0
      /\ Count(result.output, <<"z">>) = 0

\* the statements of UndeclaredUses that halt the run without writing a line
HaltingUses ==
  { Asignar(N_zz, <<Ref(E_Num(1))>>),
    AsignarElemento(N_zz, E_Num(0), <<Ref(E_Num(1))>>),
    Leer(<<N_zz>>),
    Leer(<<N_x, N_zz>>),
    Asignar(N_x, <<Lit(<<"a">>), Ref(E_Var(N_zz))>>),
    AsignarElemento(N_arr, E_Num(0), <<Lit(<<"a">>), Ref(E_Var(N_zz))>>) }

\* C3: output and errors only grow during a run, and a run halted by the fatal
\* flag returns a result holding the recorded errors, the lines written before
\* the halt in order (here "a" then "b", whatever block the failing statement
\* is in) and a trace closed by its single end node.
HaltedRunReturns ==
  [][/\ IsPrefix(output, output')
     /\ IsPrefix(errors, errors')
     /\ (pc' = "done" /\ hasError') =>
          /\ result'.returned
          /\ result'.output = output
          /\ result'.errors = errors
          /\ Len(result'.errors) > 0
          /\ EndsWithEnd(result'.flowchart)
          /\ Count(Kinds(result'.flowchart), "output") = Len(result'.output)
          /\ \A w \in Wrappers : \A u \in HaltingUses :
               code = Prologue \o Wrapped(w, u) \o Epilogue =>
                 result'.output = << <<"a">>, <<"b">> >>]_vars

\* C3 witness: a halted run returned after writing lines
HaltedRunReturned ==
  /\ Done
  /\ hasError
  /\ result.returned
  /\ Len(result.output) = 2
  /\ Len(result.errors) = 1

\* C4: no dispatch of a while statement runs more than 100 passes of its body:
\* neither one in progress nor one that returned; a program whose only loop is
\* a while that writes "p" once per pass writes it at most 100 times.
WhileAtMost100 ==
  /\ \A i \in DOMAIN stack : stack[i].kind = "mientras" => stack[i].passes <= 100
  /\ \A i \in DOMAIN loops : loops[i].kind = "mientras" => loops[i].passes <= 100
  /\ \A d \in WhileShapes : code = WhileCode(d) => Count(output, <<"p">>) <= 100

\* C4 witness: a while whose condition never turns false returned after 100
\* passes
WhileCapReached ==
  /\ Done
  /\ code = WhileCode([family |-> "mientras", cond |-> E_Bool(TRUE), body |-> "reset"])
  /\ Count(output, <<"p">>) = 100
  /\ \E i \in DOMAIN loops : loops[i].kind = "mientras" /\ loops[i].passes = 100

\* floor((b - a) / s) + 1 passes when a <= b, none when a > b
ParaPasses(a, b, s) == IF a <= b THEN ((b - a) \div s) + 1 ELSE 0

\* C5: in a run without error, a for over literal bounds a..b with step s > 0
\* (1 when omitted) runs its body floor((b-a)/s)+1 times when a <= b and not
\* at all when a > b, also when the body assigns the control variable.
ParaPassCount ==
  /\ \A i \in DOMAIN loops :
       (loops[i].kind = "para" /\ ~loops[i].halted) =>
         LET l == LineAt(lines, loops[i].index)
         IN  loops[i].passes = ParaPasses(l.from, l.to, l.step)
  /\ \A d \in ParaShapes :
       (Done /\ ~hasError /\ code = ParaCode(d)) =>
         Count(result.output, <<"p">>) =
           ParaPasses(d.from, d.to, IF d.paso THEN d.step ELSE 1)

\* C5 witness: a for with a step that does not divide the distance returned
ParaWithStepRan ==
  /\ Done
  /\ ~hasError
  /\ code = ParaCode([family |-> "para", from |-> 0, to |-> 3, step |-> 2, paso |-> TRUE,
                      body |-> "assign"])
  /\ Count(result.output, <<"p">>) = 2

\* the value of the switch variable at the head of a SegunCode program: the
\* declared default overwritten by the input statement
HeadValue(d) ==
  Coerce(toLowerCase(d.type), IF answers = <<>> THEN <<>> ELSE answers[1])

\* a case value text matches a value: exactly as numbers when both are
\* numbers, else as texts without regard to letter case
ValueMatches(text, v) ==
  IF ~IsQuoted(text) /\ IsIntText(text) /\ v.t = "num"
  THEN IntOfText(text) = v.n
  ELSE toLowerCase(IF IsQuoted(text) THEN Unquote(text) ELSE text) = toLowerCase(String(v))

GroupMatches(g, v) == ~g.default /\ \E i \in DOMAIN g.values : ValueMatches(g.values[i], v)

\* the first group in source order that matches, 0 when none does
FirstGroup(groups, v) ==
  IF \E i \in DOMAIN groups : GroupMatches(groups[i], v)
  THEN CHOOSE i \in DOMAIN groups :
         GroupMatches(groups[i], v) /\ \A k \in 1..(i - 1) : ~GroupMatches(groups[k], v)
  ELSE 0

CaseLines(out) == SelectSeq(out, LAMBDA o : o \in {<<"p">>, <<"q">>, <<"s">>})

\* C6: a switch runs the body of the first case group, in source order, one of
\* whose values matches the value the variable had at the head (numbers exactly,
\* texts without regard to case), and no other case body, also when that body
\* rebinds the variable to a value a later group matches.
SegunFirstMatch ==
  \A d \in SegunShapes :
    (Done /\ code = SegunCode(d)) =>
      LET f == FirstGroup(d.groups, HeadValue(d))
      IN  /\ result.errors = <<>>
          /\ CaseLines(result.output) = IF f > 0 THEN << <<d.groups[f].tag>> >> ELSE <<>>

\* C6 witness: the text "A" selected the group of "a" although a later group
\* lists 'a' too
SegunMatchedIgnoringCase ==
  /\ Done
  /\ answers = << <<"A">> >>
  /\ \E d \in SegunShapes :
       /\ code = SegunCode(d)
       /\ d.type = T_Cadena
       /\ Len(d.groups) = 3
       /\ d.groups[2].values = << <<"B">>, <<"'", "a", "'">> >>
       /\ CaseLines(result.output) = << <<"p">> >>

\* C7: the default body runs exactly once when no case matches and a default
\* group exists, wherever that group stands, and never otherwise.
SegunDefaultAnywhere ==
  \A d \in SegunShapes :
    (Done /\ code = SegunCode(d)) =>
      Count(result.output, <<"r">>) =
        IF FirstGroup(d.groups, HeadValue(d)) = 0 /\ \E i \in DOMAIN d.groups : d.groups[i].default
        THEN 1 ELSE 0

FirstTrue(conds) ==
  IF \E i \in DOMAIN conds : conds[i]
  THEN CHOOSE i \in DOMAIN conds : conds[i] /\ \A k \in 1..(i - 1) : ~conds[k]
  ELSE 0

\* the lines an if chain writes, and the number of conditions it evaluates
ChainOutput(d) ==
  IF FirstTrue(d.conds) > 0 THEN << <<Digits[FirstTrue(d.conds) + 1]>> >>
  ELSE IF d.sino THEN << <<"e">> >>
  ELSE <<>>

ChainEvaluations(d) ==
  IF FirstTrue(d.conds) > 0 THEN FirstTrue(d.conds) ELSE Len(d.conds)

\* the branch of the outer chain of a nested shape that runs (3 is the sino)
OuterBranch(d) ==
  IF FirstTrue(d.outer.conds) > 0 THEN FirstTrue(d.outer.conds)
  ELSE IF d.outer.sino THEN 3
  ELSE 0

NestedOutput(d) ==
  IF OuterBranch(d) # 0 /\ OuterBranch(d) = d.at
  THEN << <<"[">> >> \o ChainOutput(d.inner) \o << <<"]">> >>
  ELSE ChainOutput(d.outer)

NestedEvaluations(d) ==
  ChainEvaluations(d.outer)
  + (IF OuterBranch(d) # 0 /\ OuterBranch(d) = d.at THEN ChainEvaluations(d.inner) ELSE 0)

\* C8: an if chain runs exactly the body of its first true condition, else the
\* sino body when there is one, else nothing; it evaluates no condition after
\* the first true one (one decision node per evaluation) and resumes after its
\* finsi (the line after it is written once, last); likewise for a chain nested
\* in a branch of another.
ChainFirstTrue ==
  /\ \A d \in ChainShapes :
       (Done /\ code = ChainCode(d)) =>
         /\ result.output = ChainOutput(d) \o << <<"z">> >>
         /\ Count(Kinds(result.flowchart), "decision") = ChainEvaluations(d)
         /\ result.errors = <<>>
  /\ \A d \in NestedChainShapes :
       (Done /\ code = NestedChainCode(d)) =>
         /\ result.output = NestedOutput(d) \o << <<"z">> >>
         /\ Count(Kinds(result.flowchart), "decision") = NestedEvaluations(d)

\* C8 witness: a chain of three links whose second sino si is its first true
\* condition, followed by another true one, returned
ChainThirdLinkRan ==
  /\ Done
  /\ code = ChainCode([family |-> "si", conds |-> <<FALSE, FALSE, TRUE, TRUE>>, sino |-> TRUE])
  /\ result.output = << <<"3">>, <<"z">> >>

DefaultKinds == <<"start", "process", "output", "input", "decision", "output", "end">>

\* C9: the default program, answered "20", writes "Usted es mayor de edad"
\* last; answered "10" or "18" it writes "Usted es menor de edad" last; either
\* way no error is recorded and the trace is start, process, output, input,
\* decision, output, end, each node linked to the next.
DefaultProgramRuns ==
  (Done /\ code = DefaultCode /\ Len(answers) = 1
        /\ answers[1] \in { <<"2", "0">>, <<"1", "0">>, <<"1", "8">> }) =>
    /\ result.errors = <<>>
    /\ Kinds(result.flowchart) = DefaultKinds
    /\ Linked(result.flowchart)
    /\ Len(result.output) = 2
    /\ result.output[2] = IF answers[1] = <<"2", "0">> THEN S_mayor ELSE S_menor

\* C9 witness: the default program returned after the answer "18"
DefaultAnswered18 ==
  /\ Done
  /\ code = DefaultCode
  /\ answers = << <<"1", "8">> >>
  /\ result.output[2] = S_menor

\* C10: the four-line program, run with no input provider, returns the
\* output ["v= 0"], no error and the trace start, process, output, end.
RoundTripResult ==
  (Done /\ code = RoundTripCode /\ ~inputCallback) =>
    /\ result.output = << <<"v", "=", " ", "0">> >>
    /\ result.errors = <<>>
    /\ Kinds(result.flowchart) = <<"start", "process", "output", "end">>

\* C10 witness: the four-line program returned, no provider attached
RoundTripReturned ==
  /\ Done
  /\ code = RoundTripCode
  /\ ~inputCallback
  /\ Len(result.output) = 1

Last(seq) == seq[Len(seq)]

\* the line dispatched by a step, when the step dispatches one
Dispatches(kind) ==
  /\ executed' # executed
  /\ Statement(LineAt(lines, Last(executed'))) = kind

DispatchedLine == LineAt(lines, Last(executed'))

\* the documented default of a scalar type
DocumentedDefault(type) ==
  CASE toLowerCase(type) \in {S_entero, S_real} -> NumV(0)
    [] toLowerCase(type) \in {S_caracter, S_cadena} -> StrV(<<>>)
    [] toLowerCase(type) = S_logico -> BoolV(FALSE)

DefaultText(type) ==
  CASE toLowerCase(type) \in {S_entero, S_real} -> <<"v", "=", " ", "0">>
    [] toLowerCase(type) \in {S_caracter, S_cadena} -> <<"v", "=", " ">>
    [] toLowerCase(type) = S_logico -> <<"v", "=", " ", "f", "a", "l", "s", "e">>

\* C11: right after a declaration of a scalar type is dispatched, the store
\* binds the declared name (whatever its letter case) to the type's default:
\* 0 for entero and real, "" for caracter and cadena, false for logico, also
\* when the name held another value; a program that declares, rebinds and
\* declares again writes the default of the second type.
DefinirGivesDefault ==
  [][/\ (Dispatches("definir") /\ toLowerCase(DispatchedLine.type) \in
           {S_entero, S_real, S_caracter, S_cadena, S_logico}) =>
          /\ MapHas(variables', toLowerCase(DispatchedLine.name))
          /\ MapGet(variables', toLowerCase(DispatchedLine.name)).value =
               DocumentedDefault(DispatchedLine.type)
          /\ MapGet(variables', toLowerCase(DispatchedLine.name)).type =
               toLowerCase(DispatchedLine.type)
     /\ \A d \in DefinirShapes :
          (pc' = "done" /\ code = DefinirCode(d)) =>
            /\ result'.output = <<DefaultText(d.second)>>
            /\ result'.errors = <<>>]_vars

\* C11 witness: x, declared entero and bound to 20 by an input, was declared
\* again as logico and the run wrote "v= false"
RedeclaredAfterInput ==
  /\ Done
  /\ code = DefinirCode([family |-> "definir", first |-> T_Entero, second |-> T_Logico,
                         between |-> "leer"])
  /\ answers = << <<"2", "0">> >>
  /\ Len(sink) = 3
  /\ MapGet(sink[2], N_x).value = NumV(20)
  /\ result.output = << <<"v", "=", " ", "f", "a", "l", "s", "e">> >>

Zeros(n) == [i \in 1..n |-> NumV(0)]

\* the value the index of the dispatched element assignment evaluates to
IndexValue == ToNumber(evaluateExpression(<<Ref(DispatchedLine.idx)>>, variables).value)

RECURSIVE DimSize(_, _)
DimSize(key, n) ==
  IF n = 0 THEN 0 - 1
  ELSE LET l == LineAt(lines, executed[n])
       IN  IF Statement(l) = "dimension" /\ toLowerCase(l.name) = key THEN l.size
           ELSE DimSize(key, n - 1)

\* C19: the length of the sequence bound to arr equals the size of its
\* dimension statement in every state of a run, whatever element assignment
\* was executed.
ArrayLengthFixed ==
  \A d \in ArrayShapes :
    (code = ArrayCode(d) /\ MapHas(variables, N_arr)) =>
      /\ MapGet(variables, N_arr).value.t = "arr"
      /\ Len(MapGet(variables, N_arr).value.a) = DimSize(N_arr, Len(executed))

\* what an empty input string becomes in a variable of the given type
EmptyInput(type) ==
  CASE type \in {S_entero, S_real} -> NumV(0)
    [] type = S_logico -> BoolV(FALSE)
    [] type \in {S_caracter, S_cadena} -> StrV(<<>>)

\* C15: with no input provider attached, an input statement whose identifiers
\* are all declared scalars completes in its own step: no request is issued,
\* the run is not suspended, every identifier is bound to what the empty
\* string gives in its type (0, false or ""), one notification is sent per
\* identifier, no error is recorded and exactly one input node is added.
LeerWithoutProvider ==
  [][/\ (/\ ~inputCallback
         /\ Dispatches("leer")
         /\ \A k \in DOMAIN DispatchedLine.names :
              /\ MapHas(variables, toLowerCase(DispatchedLine.names[k]))
              /\ MapGet(variables, toLowerCase(DispatchedLine.names[k])).type \in
                   {S_entero, S_real, S_logico, S_caracter, S_cadena}) =>
          /\ pc' = "running"
          /\ prompts' = prompts
          /\ errors' = errors
          /\ hasError' = hasError
          /\ stack' = Advance(Top.j + 1)
          /\ \A k \in DOMAIN DispatchedLine.names :
               LET b == MapGet(variables', toLowerCase(DispatchedLine.names[k]))
               IN  b.value = EmptyInput(b.type)
          /\ Len(sink') = Len(sink) + Len(DispatchedLine.names)
          /\ Len(flowchart') = Len(flowchart) + 1
          /\ Last(flowchart').type = "input"
     /\ \A d \in LeerShapes :
          (pc' = "done" /\ code = LeerCode(d) /\ ~inputCallback) =>
            /\ result'.output = <<DefaultText(d.type), <<"v", "=", " ", "0">> >>
            /\ result'.errors = <<>>
            /\ Count(Kinds(result'.flowchart), "input") = 1]_vars

\* C15 witness: with no provider, a logico bound to 7 and an entero bound to 2
\* were read and the run wrote "v= false" and "v= 0"
ReadWithoutProvider ==
  /\ Done
  /\ ~inputCallback
  /\ code = LeerCode([family |-> "leer", type |-> T_Logico])
  /\ prompts = <<>>
  /\ result.output = << <<"v", "=", " ", "f", "a", "l", "s", "e">>, <<"v", "=", " ", "0">> >>

\* a line no statement pattern matches: not a program opener or closer, its
\* keyword's regular expression (if it starts with a keyword) does not match,
\* and it is no assignment
Unmatched(l) ==
  /\ l.kw \notin {"algoritmo", "proceso", "finalgoritmo", "finproceso"}
  /\ ~l.ok
  /\ ~l.asg

\* C17: the step that dispatches an unmatched line hands index + 1 to the
\* enclosing loop and changes nothing else: store, output, errors, trace, node
\* counter and fatal flag stay as they were, nothing is sent to the sink and no
\* input is requested; a program with one such line between two writes
\* returns what it returns without the line.
UnmatchedLineSkipped ==
  [][/\ (executed' # executed /\ Unmatched(DispatchedLine)) =>
          /\ stack' = Advance(Last(executed') + 1)
          /\ variables' = variables
          /\ output' = output
          /\ errors' = errors
          /\ flowchart' = flowchart
          /\ nodeCounter' = nodeCounter
          /\ hasError' = hasError
          /\ sink' = sink
          /\ prompts' = prompts
          /\ pc' = pc
     /\ \A u \in UnmatchedLines :
          (pc' = "done" /\ code = SkipCode(u)) =>
            /\ result'.output = << <<"a">>, <<"b">> >>
            /\ result'.errors = <<>>
            /\ Kinds(result'.flowchart) =
                 <<"start", "process", "process", "output", "output", "end">>
            /\ Len(sink) = 2
            /\ Len(executed) = 5]_vars

\* C17 witness: the run of the program whose fourth line is "Definir x"
\* returned, x still bound to 2
MalformedDefinirSkipped ==
  /\ Done
  /\ code = SkipCode(Malformed("definir"))
  /\ executed = <<0, 1, 2, 3, 4>>
  /\ MapGet(variables, N_x).value = NumV(2)
  /\ result.output = << <<"a">>, <<"b">> >>

Min(a, b) == IF a < b THEN a ELSE b

\* the programs of WhileShapes whose condition is x < n and whose body adds 1
\* to x: the condition holds exactly n consecutive times
CountingWhile(n) ==
  WhileCode([family |-> "mientras", cond |-> E_Bin("<", E_Var(N_x), E_Num(n)),
             body |-> "count"])

\* C20: a while dispatch the fatal flag did not cut short evaluated its
\* condition once before every pass and once more to stop, made at most 100
\* passes, and stopped on a condition still true only after exactly 100; a
\* loop whose condition holds n consecutive times makes min(100, n) passes,
\* records no error, leaves the fatal flag clear, and the run goes on with the
\* line after finmientras (it writes "z" once, last).
WhileMinOfCap ==
  /\ \A i \in DOMAIN loops :
       (loops[i].kind = "mientras" /\ ~loops[i].halted) =>
         /\ loops[i].evals = loops[i].passes + 1
         /\ loops[i].passes <= 100
         /\ loops[i].still => loops[i].passes = 100
  /\ \A n \in 0..MaxCount \cup (maxIterations - 1)..(maxIterations + 1) :
       (Done /\ code = CountingWhile(n)) =>
         /\ Count(result.output, <<"p">>) = Min(100, n)
         /\ Count(result.output, <<"z">>) = 1
         /\ Last(result.output) = <<"z">>
         /\ result.errors = <<>>
         /\ ~hasError
         /\ Last(executed) = 5
         /\ Len(loops) = 1
         /\ loops[1].passes = Min(100, n)

\* C20 witness: the loop on x < 101 was cut at 100 passes with its condition
\* still true, and the run went on without error
WhileCutWhileTrue ==
  /\ Done
  /\ code = CountingWhile(maxIterations + 1)
  /\ Len(loops) = 1
  /\ loops[1].still
  /\ loops[1].evals = 101
  /\ MapGet(variables, N_x).value = NumV(100)
  /\ result.errors = <<>>
  /\ Last(result.output) = <<"z">>

Keys(snapshot) == [i \in DOMAIN snapshot |-> snapshot[i].key]

\* exactly one notification was sent, carrying the store as it now is
NotifiedOnce ==
  /\ Len(sink') = Len(sink) + 1
  /\ Last(sink') = variables'

\* the dispatched assignment has a declared target
TargetDeclared == MapHas(variables, toLowerCase(DispatchedLine.name))

\* the dispatched assignment stores a value: its target is a declared scalar
\* name, or carries an index and names a variable that holds an array
Stores ==
  /\ TargetDeclared
  /\ DispatchedLine.indexed =>
       MapGet(variables, toLowerCase(DispatchedLine.name)).value.t = "arr"

\* C14 as stated: every executed assignment, scalar or array-target, is
\* followed by a notification.
EveryAssignmentNotifies ==
  [][(Dispatches("asignar") /\ TargetDeclared) => Len(sink') > Len(sink)]_vars

\* C14: the sink receives the whole store, keys in insertion order, after
\* every declaration, dimensioning (that does not throw), input of an
\* identifier and storing
\* assignment (an array-target assignment to a variable that holds no array
\* stores nothing and notifies nothing); no step of a run changes the store
\* without ending on a notification that carries the store as the step left it.
SinkFollowsStore ==
  [][/\ (Dispatches("definir") \/ (Dispatches("dimension") /\ ~DispatchedLine.toolong)) =>
          NotifiedOnce
     /\ (Dispatches("asignar") /\ Stores) => NotifiedOnce
     /\ (Dispatches("asignar") /\ TargetDeclared /\ ~Stores) =>
          (sink' = sink /\ variables' = variables)
     /\ (/\ Dispatches("leer")
         /\ ~inputCallback
         /\ \A k \in DOMAIN DispatchedLine.names :
              MapHas(variables, toLowerCase(DispatchedLine.names[k]))) =>
          /\ Len(sink') = Len(sink) + Len(DispatchedLine.names)
          /\ Last(sink') = variables'
     /\ answers' # answers => NotifiedOnce
     /\ variables' # variables =>
          /\ Len(sink') > Len(sink)
          /\ Last(sink') = variables'
          /\ \A i \in (Len(sink) + 1)..Len(sink') : Keys(sink'[i]) = Keys(variables')
     /\ IsPrefix(sink, sink')
     /\ (pc' = "done" /\ code = SinkCode) =>
          /\ Len(sink) = 8
          /\ \A i \in DOMAIN sink : IsPrefix(Keys(sink[i]), <<N_x, N_c, N_arr>>)
          /\ sink[4][1].name = N_X]_vars

\* C14 witness: the program with one statement of every storing kind
\* returned after eight notifications, the last one carrying the values read
EightNotifications ==
  /\ Done
  /\ code = SinkCode
  /\ answers = << <<"A">>, <<"2", "0">> >>
  /\ Len(sink) = 8
  /\ MapGet(sink[5], N_arr).value = ArrV(<<NumV(0), NumV(5)>>)
  /\ MapGet(sink[5], N_x) = MapGet(sink[4], N_x)
  /\ MapGet(sink[8], N_x).value = BoolV(FALSE)
  /\ MapGet(sink[8], N_c).value = StrV(<<"A">>)

\* C13: every returned trace has exactly one start node, which is its first
\* node, and exactly one end node, which is its last: for the empty program,
\* for runs halted by the fatal flag and for runs halted by an exception.
OneStartOneEnd ==
  result.returned =>
    /\ Len(result.flowchart) >= 2
    /\ result.flowchart[1].type = "start"
    /\ Last(result.flowchart).type = "end"
    /\ Count(Kinds(result.flowchart), "start") = 1
    /\ Count(Kinds(result.flowchart), "end") = 1
    /\ code \in {EmptyCode, OnlyComments} => Kinds(result.flowchart) = <<"start", "end">>

\* C13 witness: a run halted by an exception thrown four blocks deep returned
\* its trace
ThrownInNestedBlocks ==
  /\ Done
  /\ code = Prologue \o Wrapped("nested", DimensionTooLong(N_arr)) \o Epilogue
  /\ result.errors = <<ThrownError>>
  /\ result.output = << <<"a">>, <<"b">> >>
  /\ Kinds(result.flowchart) =
       <<"start", "process", "process", "output", "decision", "decision", "decision",
         "decision", "process", "output", "end">>

\* the arrays bound by the k-th reset, as they are now
ArraysAt(k) == IF k = Len(retired) THEN Arrays ELSE retired[k + 1]

Held(r) == [output |-> r.output, errors |-> r.errors, flowchart |-> r.flowchart]

EarlierResultsKept == \A i \in DOMAIN returned : ArraysAt(returned[i].at) = Held(returned[i])

SameRunSameResult ==
  \A i, j \in DOMAIN returned :
    (returned[i].code = returned[j].code /\ returned[i].answers = returned[j].answers)
      => Held(returned[i]) = Held(returned[j])

\* a step that starts a run: execute was called and no line was dispatched yet
RunStarts == pc # "running" /\ pc' = "running" /\ executed' = <<>>

FreshState ==
  /\ variables = <<>>
  /\ output = <<>>
  /\ errors = <<>>
  /\ flowchart = AddNode(<<>>, 0, "start", "Inicio")
  /\ nodeCounter = 1
  /\ ~hasError

\* C16: on one interpreter, every run starts from an empty store, empty output,
\* empty errors, a trace holding only the start node with id 0, and a cleared
\* fatal flag; two runs of the same program that were given the same input
\* values returned equal results whatever ran between and before them; and
\* every result object returned earlier still holds what it held when returned.
NothingPersists ==
  /\ [](EarlierResultsKept /\ SameRunSameResult)
  /\ [][RunStarts => FreshState']_vars

\* C16 witness: the default program returned, then a program halted on an error
\* inside nested blocks, then the default program returned again on the same
\* input
ThreeRunsOnOneInstance ==
  /\ Len(returned) = 3
  /\ returned[1].code = DefaultCode
  /\ returned[3].code = DefaultCode
  /\ returned[1].answers = <<<<"2", "0">>>>
  /\ returned[3].answers = returned[1].answers
  /\ returned[2].errors # <<>>
  /\ returned[2].at = 2
  /\ Held(returned[1]) = Held(returned[3])

\* what run r has done by now
RunNow(r) ==
  IF r = host.run THEN Observed ELSE (CHOOSE p \in Range(parked) : p.run = r)

\* C18: a run the user stopped while it was suspended on an input request stays
\* as it was when stopped: still suspended, no output appended, no snapshot
\* sent, no value received, nothing returned; and its result is never put on
\* display, whatever is run, stopped or submitted afterwards.
AbandonedNeverResumes ==
  \A i \in DOMAIN stopped :
    /\ RunNow(stopped[i].run) = stopped[i]
    /\ stopped[i].pc = "awaiting"
    /\ host.delivered # stopped[i].run

\* C18 witness: the first run was stopped at its input request after writing
\* output; the second run then asked for input, the user submitted a value, the
\* second run received it and its result is on display
StoppedThenSubmitted ==
  /\ Len(stopped) = 1
  /\ stopped[1].run = 1
  /\ stopped[1].output # <<>>
  /\ Len(parked) = 1
  /\ host.run = 2
  /\ answers # <<>>
  /\ host.delivered = 2
  /\ host.output = output

Terminator(fam) ==
  CASE fam = "mientras" -> "finmientras"
    [] fam = "para" -> "finpara"
    [] fam = "segun" -> "finsegun"
    [] fam = "si" -> "finsi"

RECURSIVE OwnEnd(_, _, _, _)
\* one past the terminator of family fam at which a depth counter, depth at
\* line k, incremented on every opener of the family and decremented on every
\* terminator of the family, reaches 0 (the number of lines when it never does)
OwnEnd(ls, k, depth, fam) ==
  IF k >= Len(ls) THEN k
  ELSE LET l == LineAt(ls, k)
           d1 == IF Statement(l) = fam THEN depth + 1 ELSE depth
           d2 == IF l.kw = Terminator(fam) /\ ~l.asg THEN d1 - 1 ELSE d1
       IN  IF d2 = 0 THEN k + 1 ELSE OwnEnd(ls, k + 1, d2, fam)

\* the dispatched opener of family fam hands back one past its own terminator,
\* and the body range it runs lies strictly between the two
EndsAtOwnTerminator(fam) ==
  LET i == Last(executed')
      e == OwnEnd(lines, i + 1, 1, fam)
      f == Last(stack')
  IN  IF Len(stack') > Len(stack)
      THEN f.ret = e /\ f.j > i /\ f.limit <= e - 1
      ELSE f.j = e

\* C21: in every program (all are well nested), the step that dispatches the
\* opener of a while, for, if or switch block and records no error hands back
\* the index one past the opener's own matching terminator, and runs as its
\* body only lines strictly between the opener and that terminator.
BlockEndsAtOwnTerminator ==
  [][\A fam \in BlockFamilies :
       (Dispatches(fam) /\ ~hasError') => EndsAtOwnTerminator(fam)]_vars

\* C22: in every returned trace the nodes carry distinct ids in creation
\* order, the children of each node but the last are exactly the id of the
\* node created next, and the last node has no children: one straight chain,
\* whatever blocks, loops and branches the run went through.
TraceIsOneChain ==
  result # NoResult =>
    LET fc == result.flowchart
    IN  /\ \A a, b \in DOMAIN fc : a < b => fc[a].id < fc[b].id
        /\ \A k \in DOMAIN fc :
             fc[k].children = IF k < Len(fc) THEN <<fc[k + 1].id>> ELSE <<>>

\* C22 witness: a run whose loop went around (a line was dispatched more than
\* once) returned a trace of at least six nodes with two decisions in it
ChainAfterLoop ==
  /\ Done
  /\ result # NoResult
  /\ \E a, b \in DOMAIN executed : a < b /\ executed[a] = executed[b]
  /\ Len(result.flowchart) >= 6
  /\ Count(Kinds(result.flowchart), "decision") >= 2

\* the number of dispatches so far of statements of one kind
Executions(kind) ==
  Cardinality({ k \in DOMAIN executed : Statement(LineAt(lines, executed[k])) = kind })

\* the number of nodes so far with a given type and text
Nodes(type, text) ==
  Cardinality({ k \in DOMAIN flowchart : flowchart[k].type = type /\ flowchart[k].text = text })

\* C23: at every moment of a run the trace holds exactly one decision node per
\* dispatch of a while head and one per dispatch of a for head, however many
\* passes the loops made; the node is appended by the step that dispatches the
\* head, before any body line is dispatched; and the trace holds one output
\* node per executed output statement, one process node per executed
\* declaration and, while no error is recorded, one per executed assignment.
LoopHeadOneDecision ==
  /\ [](pc # "idle" =>
          /\ Nodes("decision", "Mientras") = Executions("mientras")
          /\ Nodes("decision", "Para") = Executions("para")
          /\ Nodes("output", "Escribir") = Executions("escribir")
          /\ Nodes("process", "Definir") = Executions("definir")
          /\ errors = <<>> => Nodes("process", "<-") = Executions("asignar"))
  /\ [][(Dispatches("mientras") \/ Dispatches("para")) =>
          /\ Len(flowchart') = Len(flowchart) + 1
          /\ IsPrefix(flowchart, flowchart')
          /\ Last(flowchart').type = "decision"]_vars

\* C23 witness: a while loop that made two passes and a for loop that made
\* three each left one decision node, and every pass wrote a line
OneDecisionManyPasses ==
  /\ Done
  /\ errors = <<>>
  /\ \/ /\ \E k \in DOMAIN loops : loops[k].kind = "mientras" /\ loops[k].passes = 2
        /\ Nodes("decision", "Mientras") = 1
        /\ Nodes("output", "Escribir") >= 2
     \/ /\ \E k \in DOMAIN loops : loops[k].kind = "para" /\ loops[k].passes = 3
        /\ Nodes("decision", "Para") = 1
        /\ Nodes("output", "Escribir") >= 3

\* the position of the first identifier of `names` with no binding in the
\* store, one past the last position when all are bound
FirstUndeclared(names) ==
  LET S == { j \in 1..Len(names) : ~MapHas(variables, toLowerCase(names[j])) }
  IN  IF S = {} THEN Len(names) + 1 ELSE CHOOSE j \in S : \A i \in S : j <= i

\* the input statement stops at its identifier j: one error naming it, the
\* fatal flag, no request, no node, and the statement is left
LeerAbortsAt(names, j) ==
  /\ errors' = Append(errors, UndefinedError(names[j]))
  /\ hasError'
  /\ prompts' = prompts
  /\ flowchart' = flowchart
  /\ pc' = "running"
  /\ \A f \in DOMAIN stack' : stack'[f].kind # "leer"

\* what a step of the input statement over `names` does when the identifier it
\* comes to is the k-th
LeerComesTo(names, k) ==
  LET j == FirstUndeclared(names)
      n == Len(names)
  IN  IF inputCallback
      THEN /\ (k < j /\ k <= n) =>
                /\ prompts' = Append(prompts, names[k])
                /\ pc' = "awaiting"
                /\ errors' = errors /\ flowchart' = flowchart /\ ~hasError'
           /\ (k = j /\ k <= n) => LeerAbortsAt(names, j)
           /\ k = n + 1 =>
                /\ prompts' = prompts /\ errors' = errors
                /\ Len(flowchart') = Len(flowchart) + 1 /\ Last(flowchart').type = "input"
      ELSE /\ prompts' = prompts
           /\ j <= n => LeerAbortsAt(names, j)
           /\ j = n + 1 =>
                /\ errors' = errors
                /\ Len(flowchart') = Len(flowchart) + 1 /\ Last(flowchart').type = "input"

\* C24: an input statement takes its identifiers from left to right: with a
\* provider it sends one request per declared identifier, the first when the
\* statement is dispatched and each next one in the step that resolves the
\* previous one, so that at most one request is pending; at the first
\* undeclared identifier it records exactly one error naming it, sets the
\* fatal flag, sends no request for it or for any later identifier, emits no
\* input node and leaves the statement; the input node is emitted only after
\* the last identifier.
LeerLeftToRight ==
  /\ [](/\ Len(prompts) = Len(answers) + (IF pc = "awaiting" THEN 1 ELSE 0)
        /\ hasError => pc # "awaiting")
  /\ [][/\ Dispatches("leer") => LeerComesTo(DispatchedLine.names, 1)
        /\ (pc = "awaiting" /\ answers' # answers) =>
             LeerComesTo(LineAt(lines, Top.index).names, Top.k + 1)
        /\ (prompts' # prompts) => (Dispatches("leer") \/ answers' # answers)]_vars

\* C24 witness: an input statement over x, zz, x with x declared and zz not
\* asked for x once, was answered, and stopped at zz with one error and no
\* input node
LeerStoppedAtSecond ==
  /\ Done
  /\ inputCallback
  /\ \E k \in DOMAIN code : code[k] = Leer(<<N_x, N_zz, N_x>>)
  /\ prompts = <<N_x>>
  /\ Len(answers) = 1
  /\ result.errors = <<UndefinedError(N_zz)>>
  /\ Count(Kinds(result.flowchart), "input") = 0

\* the step changes nothing in the store but the values bound to `keys`
OnlyValuesOf(keys) ==
  /\ Len(variables') = Len(variables)
  /\ \A i \in DOMAIN variables :
       /\ variables'[i].key = variables[i].key
       /\ variables'[i].name = variables[i].name
       /\ variables'[i].type = variables[i].type
       /\ variables[i].key \notin keys => variables'[i].value = variables[i].value

\* the step leaves the store, the notifications and the trace as they were
NothingStored ==
  /\ variables' = variables
  /\ sink' = sink
  /\ flowchart' = flowchart

\* a step of an input statement that records an error
LeerFails ==
  /\ Dispatches("leer") \/ (pc = "awaiting" /\ answers' # answers)
  /\ Len(errors') > Len(errors)

\* a scalar assignment to a declared target that records no error changes only
\* the value of the target's binding, notifies once and emits one process node
ScalarAssignmentStoresValue ==
  (Dispatches("asignar") /\ ~DispatchedLine.indexed /\ TargetDeclared /\ errors' = errors) =>
    /\ OnlyValuesOf({toLowerCase(DispatchedLine.name)})
    /\ NotifiedOnce
    /\ Len(flowchart') = Len(flowchart) + 1
    /\ IsPrefix(flowchart, flowchart')
    /\ Last(flowchart').type = "process"

\* C25 (amended): an assignment, scalar or to an element, whose target is
\* undeclared, and an input statement whose first identifier is undeclared,
\* leave the store as it was, send no notification and emit no node; an input
\* statement that fails at a later identifier emits no node but keeps the
\* values it stored for the identifiers before it, each with its
\* notification, and changes no other binding; a scalar assignment that
\* succeeds changes only the value of its target and emits one process node.
UndeclaredTargetKeepsStore ==
  [][/\ (Dispatches("asignar") /\ ~TargetDeclared) => (NothingStored /\ hasError')
     /\ (Dispatches("leer") /\ FirstUndeclared(DispatchedLine.names) = 1) =>
          (NothingStored /\ hasError')
     /\ (LeerFails /\ Dispatches("leer")) =>
          LET names == DispatchedLine.names
              j == FirstUndeclared(names)
          IN  /\ flowchart' = flowchart
              /\ OnlyValuesOf({ toLowerCase(names[i]) : i \in 1..(j - 1) })
              /\ Len(sink') = Len(sink) + (j - 1)
     /\ (LeerFails /\ ~Dispatches("leer")) =>
          LET key == toLowerCase(LineAt(lines, Top.index).names[Top.k])
          IN  /\ flowchart' = flowchart
              /\ OnlyValuesOf({key})
              /\ MapGet(variables', key).value
                   = Coerce(MapGet(variables, key).type, Last(answers'))
              /\ sink' = Append(sink, variables')
     /\ ScalarAssignmentStoresValue]_vars

\* C25 witness: an input statement over x and zz, zz undeclared, stored the
\* answer given for x and then failed at zz without an input node for it
LeerKeptEarlierValue ==
  /\ Done
  /\ hasError
  /\ \E k \in DOMAIN code : code[k] = Leer(<<N_x, N_zz>>)
  /\ answers = << <<"3">> >>
  /\ MapGet(variables, <<"x">>).value = NumV(3)
  /\ errors = <<UndefinedError(N_zz)>>
  /\ Count(Kinds(result.flowchart), "input") = 0

\* C25 as stated: every statement that fails on an undeclared target, input
\* statements included, leaves the store as it was, sends no notification and
\* emits no node
FailedStatementKeepsStore ==
  [][/\ ((Dispatches("asignar") /\ ~TargetDeclared) \/ LeerFails) => NothingStored
     /\ ScalarAssignmentStoresValue]_vars

\* some binding's display name is `name` up to letter case
BoundAnyCase(name) ==
  \E i \in DOMAIN variables : toLowerCase(variables[i].name) = toLowerCase(name)

\* the step records no undefined-variable error about `name`
NoErrorFor(name) ==
  \A k \in (Len(errors) + 1)..Len(errors') : errors'[k] # UndefinedError(name)

\* the binding a declaration or dimensioning line creates, as documented
Redeclared(l) ==
  IF l.kw = "definir"
  THEN Variable(l.name, toLowerCase(l.type), DocumentedDefault(l.type))
  ELSE Variable(l.name, S_arreglo, ArrV([i \in 1..l.size |-> NumV(0)]))

\* C26: no two bindings have names that differ only in letter case; a
\* declaration or dimensioning of a name bound under any letter case replaces
\* that binding's type, value (the default) and display name in place, adds no
\* binding, changes no other binding and records no error; an assignment, an
\* input and a read that spell a bound name in any letter case record no
\* undefined-variable error for it, and the write and the input store into
\* that binding: x assigned 2 under the spelling X is written as "v= 2", and
\* after its redeclaration under X as "v= " followed by the default.
KeysIgnoreCase ==
  /\ [](/\ \A a, b \in DOMAIN variables :
             toLowerCase(variables[a].name) = toLowerCase(variables[b].name) => a = b
        /\ \A d \in CaseShapes :
             (Done /\ code = CaseCode(d) /\ d.use = "asignar") =>
               /\ result.errors = <<>>
               /\ result.output[1] = <<"v", "=", " ", "2">>
               /\ result.output[2] = <<"v", "=", " ">>
                      \o (IF d.redef = "definir" THEN <<>> ELSE <<"0", ",", "0">>))
  /\ [][/\ ((Dispatches("definir") \/ (Dispatches("dimension") /\ ~DispatchedLine.toolong))
             /\ BoundAnyCase(DispatchedLine.name)) =>
            LET i == CHOOSE i \in DOMAIN variables :
                       toLowerCase(variables[i].name) = toLowerCase(DispatchedLine.name)
            IN  /\ variables' = [variables EXCEPT ![i] = Redeclared(DispatchedLine)]
                /\ errors' = errors
                /\ ~hasError'
        /\ (Dispatches("asignar") /\ ~DispatchedLine.indexed
             /\ BoundAnyCase(DispatchedLine.name)) =>
            /\ NoErrorFor(DispatchedLine.name)
            /\ OnlyValuesOf({toLowerCase(DispatchedLine.name)})
            /\ NotifiedOnce
        /\ (Dispatches("leer") /\ BoundAnyCase(DispatchedLine.names[1])) =>
            /\ NoErrorFor(DispatchedLine.names[1])
            /\ inputCallback => (pc' = "awaiting" /\ Last(prompts') = DispatchedLine.names[1])
        /\ Dispatches("escribir") =>
            \A k \in DOMAIN DispatchedLine.parts :
              BoundAnyCase(DispatchedLine.parts[k].text) =>
                NoErrorFor(DispatchedLine.parts[k].text)]_vars

\* C26 witness: x, written through an input under the spelling X and then
\* dimensioned under the spelling X, is still the first of two bindings, now
\* displayed as X and holding an array, with no error recorded
RedeclaredInPlace ==
  /\ Done
  /\ code = CaseCode([family |-> "case", use |-> "leer", redef |-> "dimension"])
  /\ inputCallback
  /\ Len(variables) = 2
  /\ variables[1].name = N_X
  /\ variables[1].value = ArrV(<<NumV(0), NumV(0)>>)
  /\ variables[2].name = N_c
  /\ result.errors = <<>>
  /\ Len(result.output) = 2

\* a comparison whose left operand is an identifier with no binding: the
\* operand is always evaluated, and evaluating it fails
RefersUndeclared(e) == e.k = "bin" /\ e.l.k = "var" /\ ~BoundAnyCase(e.l.name)

\* the dispatched head records no error and does not enter the body that
\* starts on the line after it
BodyNotEntered ==
  /\ errors' = errors
  /\ hasError' = hasError
  /\ Last(stack').j > Last(executed') + 1

S_zzPlus1 == <<"z", "z", " ", "+", " ", "1">>

\* C27: an if, else-if or while head whose condition cannot be evaluated
\* records no error, leaves the fatal flag as it was and does not enter its
\* body (the while makes no pass; the if goes to its else branch or past its
\* end); a scalar assignment whose right-hand side cannot be evaluated records
\* no error, leaves the fatal flag as it was and stores the rewritten text as
\* a string. With x declared and zz not, "Si zz > 0 ... SiNo ..." followed by
\* "x <- zz + 1" writes the else line if there is one, then "v= zz + 1".
FailClosedFailOpen ==
  /\ [](\A d \in UnevaluableShapes :
          (Done /\ code = UnevaluableCode(d)) =>
            /\ result.errors = <<>>
            /\ result.output = (IF d.sino THEN <<<<"e">>>> ELSE <<>>)
                               \o <<<<"v", "=", " ">> \o S_zzPlus1, <<"z">>>>)
  /\ [][/\ ((Dispatches("si") \/ Dispatches("sinosi") \/ Dispatches("mientras"))
             /\ RefersUndeclared(DispatchedLine.cond)
             /\ LineAt(lines, Last(executed') + 1).kw
                  \notin {"sino", "sinosi", "finsi", "finmientras"}) =>
            BodyNotEntered
        /\ (Dispatches("mientras") /\ RefersUndeclared(DispatchedLine.cond)) =>
            /\ Len(loops') = Len(loops) + 1
            /\ Last(loops').passes = 0
        /\ (Dispatches("asignar") /\ ~DispatchedLine.indexed /\ TargetDeclared
             /\ ~HasQuote(DispatchedLine.parts)
             /\ RefersUndeclared(DispatchedLine.parts[1].e)) =>
            /\ errors' = errors
            /\ hasError' = hasError
            /\ OnlyValuesOf({toLowerCase(DispatchedLine.name)})
            /\ MapGet(variables', toLowerCase(DispatchedLine.name)).value
                 = StrV(DispatchedLine.parts[1].e.l.name \o <<" ">>
                        \o OpSource(DispatchedLine.parts[1].e.op) \o <<" ">>
                        \o SourceText(DispatchedLine.parts[1].e.r))]_vars

\* C27 witness: the if on zz > 0 went to its else branch, the assignment
\* x <- zz + 1 stored the text "zz + 1", and the run returned without an error
ElseTakenTextStored ==
  /\ Done
  /\ code = UnevaluableCode([family |-> "unevaluable", head |-> "si", sino |-> TRUE])
  /\ result.errors = <<>>
  /\ result.output[1] = <<"e">>
  /\ MapGet(variables, <<"x">>).value = StrV(S_zzPlus1)

\* the step starts a pass of a for loop: it enters the loop, or it goes around
PassStarts ==
  /\ Len(stack') > 0
  /\ Last(stack').kind = "para"
  /\ Last(stack').j = Last(stack').index + 1
  /\ \/ Len(stack') = Len(stack) + 1
     \/ /\ Len(stack') = Len(stack)
        /\ Top.kind = "para"
        /\ Last(stack').passes = Top.passes + 1

\* C28: the step that starts pass k (k = 0, 1, ...) of a for loop over a..b
\* with step s binds the control variable as an integer with value a + k*s
\* under the head's spelling, in place when the name was bound and last when
\* it was not, changes no other binding and sends one notification, whatever
\* the body assigned to the control variable; a for loop that is not halted
\* ends after floor((b-a)/s)+1 passes (none when a > b); a for head with
\* a > b leaves the store and the notifications as they were.
ParaRebindsEachPass ==
  [][/\ PassStarts =>
          LET l == LineAt(lines, Last(stack').index)
              k == Last(stack').passes - 1
              var == Variable(l.name, S_entero, NumV(l.from + k * l.step))
          IN  /\ variables' = IF BoundAnyCase(l.name)
                              THEN [variables EXCEPT
                                      ![CHOOSE i \in DOMAIN variables :
                                          toLowerCase(variables[i].name) = toLowerCase(l.name)]
                                        = var]
                              ELSE Append(variables, var)
              /\ NotifiedOnce
     /\ (Dispatches("para") /\ DispatchedLine.from > DispatchedLine.to) =>
          (variables' = variables /\ sink' = sink)
     /\ (Len(loops') > Len(loops) /\ Last(loops').kind = "para" /\ ~Last(loops').halted) =>
          LET l == LineAt(lines, Last(loops').index)
          IN  Last(loops').passes = ParaPasses(l.from, l.to, l.step)]_vars

\* C28 witness: x, declared as a string under the spelling X, was the control
\* variable of a for over 1..2 whose body assigned it 0: the loop made two
\* passes and left x an integer 0 in first place under the spelling x
ParaOverwroteBinding ==
  /\ Done
  /\ code = PreboundParaCode([family |-> "prebound", to |-> 2])
  /\ Count(result.output, <<"p">>) = 2
  /\ Len(variables) = 2
  /\ variables[1] = Variable(N_x, S_entero, NumV(0))
  /\ \E k \in DOMAIN sink : sink[k][1] = Variable(N_x, S_entero, NumV(2))
  /\ result.errors = <<>>

\* C29: every dispatched line of the form name <- expr whose target is a
\* declared scalar, whatever letters the name begins with, stores the value of
\* the expression in the target's binding and emits one process node; a
\* variable named after a keyword followed by "1", declared, assigned 2 and
\* written, is written as "v= 2".
AssignmentIsFallback ==
  /\ [](\A kw \in StatementKeywords :
          (Done /\ code = KeywordNameCode(kw)) =>
            (result.errors = <<>> /\ result.output = << <<"v", "=", " ", "2">> >>))
  /\ [][(executed' # executed /\ DispatchedLine.asg /\ ~DispatchedLine.indexed
           /\ TargetDeclared) =>
          /\ MapGet(variables', toLowerCase(DispatchedLine.name)).value
               = evaluateExpression(DispatchedLine.parts, variables).value
          /\ Len(flowchart') = Len(flowchart) + 1
          /\ Last(flowchart').type = "process"]_vars

\* a part of a concatenation list that is a bare identifier with no binding
UndeclaredPart(part) ==
  ~IsQuoted(part.text) /\ IsIdentifier(part.text) /\ ~AllDigits(part.text)
  /\ ~BoundAnyCase(part.text)

\* how a part of a concatenation list is written: a literal without its
\* quotes, a bound identifier as its value, an unbound one as [name?]
Rendered(part) ==
  IF IsQuoted(part.text) THEN Unquote(part.text)
  ELSE IF BoundAnyCase(part.text)
  THEN String(MapGet(variables, toLowerCase(part.text)).value)
  ELSE IF UndeclaredPart(part) THEN <<"[">> \o part.text \o <<"?", "]">>
  ELSE String(evaluateSimpleExpression(part.e, variables))

RECURSIVE SpaceJoined(_)
SpaceJoined(texts) ==
  IF Len(texts) = 0 THEN <<>>
  ELSE IF Len(texts) = 1 THEN texts[1]
  ELSE texts[1] \o <<" ">> \o SpaceJoined(Tail(texts))

\* C30: an output statement whose list holds a quoted literal and an
\* undeclared identifier records one undefined-variable error for each
\* undeclared identifier of the list, in order, and sets the fatal flag, and
\* still appends exactly one output line, the parts joined by single spaces
\* with [name?] in place of each undeclared identifier, and emits its output
\* node; once the flag is set no further line is dispatched.
EscribirCompletesOnError ==
  [][/\ (Dispatches("escribir") /\ HasQuote(DispatchedLine.parts)
          /\ \E k \in DOMAIN DispatchedLine.parts : UndeclaredPart(DispatchedLine.parts[k])) =>
          LET parts == DispatchedLine.parts
              bad == SelectSeq(parts, UndeclaredPart)
          IN  /\ errors' = errors \o [k \in DOMAIN bad |-> UndefinedError(bad[k].text)]
              /\ hasError'
              /\ output' = Append(output, SpaceJoined([k \in DOMAIN parts |-> Rendered(parts[k])]))
              /\ Len(flowchart') = Len(flowchart) + 1
              /\ IsPrefix(flowchart, flowchart')
              /\ Last(flowchart').type = "output"
     /\ hasError => (executed' = executed /\ output' = output)]_vars

\* C30 witness: Escribir "v", zz with zz undeclared, the third output statement
\* of its program, wrote "v [zz?]" as the third and last line and has its output
\* node, with one error recorded
PlaceholderWritten ==
  /\ Done
  /\ code = Prologue \o Wrapped("none", Escribir(<<Lit(<<"v">>), Ref(E_Var(N_zz))>>)) \o Epilogue
  /\ result.output = << <<"a">>, <<"b">>, <<"v", " ", "[", "z", "z", "?", "]">> >>
  /\ result.errors = <<UndefinedError(N_zz)>>
  /\ Count(Kinds(result.flowchart), "output") = 3

DispatcherProgress ==
  [][(executed' # executed /\ ~(Len(errors') > Len(errors) /\ Last(errors') = ThrownError)) =>
       LET i == Last(executed')
           f == Last(stack')
       IN  /\ Len(stack) >= 2 => (Top.index < i /\ i < Top.ret)
           /\ IF Len(stack') > Len(stack)
              THEN /\ f.index = i
                   /\ i < f.ret /\ f.ret <= Len(lines)
                   /\ f.limit <= f.ret
                   /\ f.kind # "leer" => f.j > i
              ELSE i < f.j /\ f.j <= Len(lines)]_vars

\* C32 witness: in a program whose if has no terminator, the else-if line was
\* dispatched from the if, ran the two lines after it and the run returned
SinoSiWithoutFinSi ==
  /\ Done
  /\ code = OpenCode("sinosi")
  /\ executed = <<0, 1, 3, 4, 5>>
  /\ result.errors = <<>>

\* the step in which execute returns
Returns == pc # "done" /\ pc' = "done"

\* the loop of execute came to the end of the program
ReachedTheEnd == Top.kind = "main" /\ Top.j >= Len(lines)

\* C33 (amended): in every state the error sequence is non-empty exactly when
\* the fatal flag is set; the flag, once set, stays set for the rest of the
\* run, and no line is dispatched while it is set; a run that returns with no
\* error has taken the loop of execute to the end of the program (a run that
\* returns with errors may have done so too, when the failing statement was
\* the last one).
ErrorsAgreeWithFlag ==
  /\ []((errors # <<>>) <=> hasError)
  /\ [][/\ hasError => (hasError' /\ executed' = executed)
        /\ (Returns /\ errors = <<>>) => ReachedTheEnd]_vars

\* C33 witness: the run of a program whose last line assigns the undeclared
\* zz dispatched all three lines and returned with one error
FailedOnLastLine ==
  /\ Done
  /\ code = LastLineFailsCode
  /\ executed = <<0, 1, 2>>
  /\ hasError
  /\ result.errors = <<UndefinedError(N_zz)>>

\* C33 as stated: a run returns with no error exactly when it has taken the
\* loop of execute to the end of the program
NoErrorIffReachedTheEnd ==
  /\ []((errors # <<>>) <=> hasError)
  /\ [][/\ hasError => hasError'
        /\ Returns => ((errors = <<>>) <=> ReachedTheEnd)]_vars

\* the number of nodes so far of a given type
NodesOfType(type) == Count(Kinds(flowchart), type)

\* an input statement comes to its end in this step without an error: it was
\* dispatched or resumed, and it is left with the error sequence as it was
LeerCompletes ==
  /\ Dispatches("leer") \/ pc = "awaiting"
  /\ pc' = "running"
  /\ errors' = errors

\* C34: at every moment of a run the trace holds as many output nodes as the
\* output has lines, and a line and its node are appended together, by the
\* step that dispatches the output statement whose expression gave the line;
\* the trace gains an input node exactly in the steps in which an input
\* statement completes without error, so that it holds one per completed input
\* statement: one per dispatched input statement less the pending one and the
\* failed one.
NodesMatchStatements ==
  /\ [](pc # "idle" =>
          /\ NodesOfType("output") = Len(output)
          /\ NodesOfType("input") <= Executions("leer")
          /\ errors = <<>> =>
                NodesOfType("input") =
                  Executions("leer") - (IF pc = "awaiting" THEN 1 ELSE 0))
  /\ [][pc # "idle" =>
          /\ IsPrefix(output, output')
          /\ output' # output =>
                /\ Dispatches("escribir")
                /\ output' = Append(output,
                      String(evaluateExpression(DispatchedLine.parts, variables).value))
                /\ Len(flowchart') = Len(flowchart) + 1
                /\ IsPrefix(flowchart, flowchart')
                /\ Last(flowchart').type = "output"
          /\ (pc' # "done" /\ output' = output) =>
                Count(Kinds(flowchart'), "output") = NodesOfType("output")
          /\ pc' # "done" =>
                Count(Kinds(flowchart'), "input") =
                  NodesOfType("input") + (IF LeerCompletes THEN 1 ELSE 0)]_vars

\* C34 witness: a run returned after an input statement failed at its second
\* identifier, the first having been read: the trace has no input node, and
\* one output node for each of the lines written before
InputFailedAfterOutput ==
  /\ Done
  /\ Executions("leer") = 1
  /\ answers # <<>>
  /\ hasError
  /\ NodesOfType("input") = 0
  /\ Len(output) >= 1
  /\ NodesOfType("output") = Len(output)

\* C35: a scalar assignment whose expression is arr[r], with r inside the
\* range of the array arr, stores in its target the element the array holds at
\* r: the value last assigned to it, or 0 when none was.
ElementReadGivesElement ==
  [][(Dispatches("asignar") /\ ~DispatchedLine.indexed
        /\ Len(DispatchedLine.parts) = 1 /\ DispatchedLine.parts[1].e.k = "at") =>
       LET e == DispatchedLine.parts[1].e
           arr == MapGet(variables, toLowerCase(e.name)).value
       IN  (arr.t = "arr" /\ e.idx.k = "num" /\ e.idx.n \in 0..(Len(arr.a) - 1)) =>
             MapGet(variables', toLowerCase(DispatchedLine.name)).value = arr.a[e.idx.n + 1]]_vars

\* C36: in the run of a program whose block has no terminator and is entered,
\* the body reaches to the end of the program: the last line of the program is
\* dispatched.
OpenBodyReachesLastLine ==
  \A fam \in OpenFamilies :
    (Done /\ code = OpenCode(fam)) =>
      \E k \in DOMAIN executed : executed[k] = Len(code) - 1

\* C37: calls of execute on one interpreter do not interfere, also when one
\* starts while another is suspended on an input request: a call that returns
\* hands back one output line per output statement it dispatched itself and a
\* trace with one start node and one end node, and two calls that ran the same
\* program and were given the same answers return equal results.
RunsDoNotInterfere ==
  /\ [](\A a, b \in DOMAIN returned :
          (returned[a].code = returned[b].code /\ returned[a].answers = returned[b].answers) =>
            /\ returned[a].output = returned[b].output
            /\ returned[a].errors = returned[b].errors
            /\ returned[a].flowchart = returned[b].flowchart)
  /\ [][Returns =>
          /\ Len(output) = Executions("escribir")
          /\ Count(Kinds(flowchart'), "start") = 1
          /\ Count(Kinds(flowchart'), "end") = 1]_vars

====
